---------------------------- MODULE Spec2Model ----------------------------
(***************************************************************************)
(* A model of crates/assistant/src/patch.rs: the PatchStore that locates   *)
(* the edits of an assistant patch in file contents (locate_patch,         *)
(* resolve_location), caches the located patch per context range, and      *)
(* materializes it on a branch buffer (create_branch_for_patch,            *)
(* group_edits, try_merge).                                                *)
(*                                                                         *)
(* Text is a sequence of one-character strings; all text is ASCII, so      *)
(* Rope::clip_offset is the identity and byte offsets are character        *)
(* offsets.  Offsets are 0-based, ranges are half open: [start, end).      *)
(* Sequence positions are 1-based, so the byte at offset o is B[o + 1].    *)
(* The input index of an edit (input_ix) is 1-based here, 0-based in Rust. *)
(***************************************************************************)
EXTENDS Integers, Sequences, FiniteSets, TLC

(***************************************************************************)
(* Text helpers (Rope: len, offset_to_point, line_len)                     *)
(***************************************************************************)

NL == "\n"

\* u8::is_ascii_whitespace, over the characters the model uses
IsWhitespace(c) == c \in {" ", NL}

Range(s, e) == [start |-> s, end |-> e]

RangeLen(r) == r.end - r.start

Slice(B, s, e) == SubSeq(B, s + 1, e)

\* offset of column 0 of the line that holds offset o
LineStart(B, o) ==
    CHOOSE i \in 0..o :
        /\ (i = 0 \/ B[i] = NL)
        /\ \A j \in (i + 1)..o : B[j] # NL

\* offset of the end of the line that holds offset o (before its line break)
LineEnd(B, o) ==
    CHOOSE i \in o..Len(B) :
        /\ (i = Len(B) \/ B[i + 1] = NL)
        /\ \A j \in (o + 1)..i : B[j] # NL

\* Point::row of offset o
RowOf(B, o) == Cardinality({j \in 1..o : B[j] = NL})

\* max_point().row
MaxRow(B) == RowOf(B, Len(B))

\* offset of Point(row, 0); row <= MaxRow(B)
RowStart(B, row) ==
    CHOOSE i \in 0..Len(B) : RowOf(B, i) = row /\ LineStart(B, i) = i

Min2(a, b) == IF a <= b THEN a ELSE b

Max2(a, b) == IF a >= b THEN a ELSE b

(***************************************************************************)
(* The location resolver: AssistantEditKind::resolve_location              *)
(***************************************************************************)

INSERTION_COST == 3
DELETION_COST == 10
WHITESPACE_INSERTION_COST == 1
WHITESPACE_DELETION_COST == 1

\* An order of the directions with Left before Up
DirectionRankLeftFirst(d) ==
    CASE d = "Left" -> 0
      [] d = "Up" -> 1
      [] d = "Diagonal" -> 2

\* derive(Ord) on SearchDirection: Up < Left < Diagonal
DirectionRank(d) ==
    CASE d = "Up" -> 0
      [] d = "Left" -> 1
      [] d = "Diagonal" -> 2

SearchState(cost, direction) == [cost |-> cost, direction |-> direction]

\* derive(Ord) on SearchState: by cost, then by direction
StateLe(a, b) ==
    \/ a.cost < b.cost
    \/ a.cost = b.cost /\ DirectionRank(a.direction) <= DirectionRank(b.direction)

\* Ord::min: the first argument unless the second is strictly smaller
StateMin(a, b) == IF StateLe(a, b) THEN a ELSE b

deletion_cost(query_byte) ==
    IF IsWhitespace(query_byte) THEN WHITESPACE_DELETION_COST ELSE DELETION_COST

\* An insertion cost that is the same for every byte
insertion_cost_flat(buffer_byte) == INSERTION_COST

insertion_cost(buffer_byte) ==
    IF IsWhitespace(buffer_byte) THEN WHITESPACE_INSERTION_COST ELSE INSERTION_COST

\* One cell (row + 1, col + 1) of the matrix from its three neighbours.
SearchCell(up_prev, left_prev, diag_prev, query_byte, buffer_byte) ==
    LET up == SearchState(up_prev.cost + deletion_cost(query_byte), "Up")
        left == SearchState(left_prev.cost + insertion_cost(buffer_byte), "Left")
        diagonal ==
            SearchState(
                IF query_byte = buffer_byte
                THEN diag_prev.cost
                ELSE diag_prev.cost
                       + (deletion_cost(query_byte) + insertion_cost(buffer_byte)),
                "Diagonal")
    IN  StateMin(StateMin(up, left), diagonal)

\* The inner loop: acc holds the cells of columns 0..Len(acc)-1 of the row
\* being filled, prev_row is the row above (index col + 1 holds column col).
\* (CHOOSE x \in {F(v) : v \in {e}} : TRUE is F(e) with e computed once.)
RECURSIVE FillRow(_, _, _, _)
FillRow(acc, prev_row, query_byte, buffer) ==
    IF Len(acc) = Len(buffer) + 1
    THEN acc
    ELSE LET col == Len(acc) - 1
             cell == SearchCell(prev_row[col + 2], acc[col + 1], prev_row[col + 1],
                                query_byte, buffer[col + 1])
         IN  CHOOSE filled \in {FillRow(next, prev_row, query_byte, buffer) :
                                   next \in {Append(acc, cell)}} : TRUE

\* The outer loop: rows holds matrix rows 0..Len(rows)-1.
RECURSIVE FillMatrix(_, _, _, _)
FillMatrix(rows, leading_deletion_cost, search_query, buffer) ==
    IF Len(rows) = Len(search_query) + 1
    THEN rows
    ELSE LET row == Len(rows) - 1
             query_byte == search_query[row + 1]
             lead == leading_deletion_cost + deletion_cost(query_byte)
             first == <<SearchState(lead, "Diagonal")>>
             filled == FillRow(first, rows[row + 1], query_byte, buffer)
         IN  CHOOSE matrix \in {FillMatrix(next, lead, search_query, buffer) :
                                   next \in {Append(rows, filled)}} : TRUE

\* SearchMatrix::new fills every cell with (0, Diagonal); row 0 keeps it.
SearchMatrix(buffer, search_query) ==
    FillMatrix(<<[col \in 1..(Len(buffer) + 1) |-> SearchState(0, "Diagonal")]>>,
               0, search_query, buffer)

MatrixGet(matrix, row, col) == matrix[row + 1][col + 1]

\* A scan that takes the last column of least cost
RightmostBufferEnd(matrix, query_len, buffer_len) ==
    IF buffer_len = 0
    THEN 0
    ELSE CHOOSE col \in 1..buffer_len :
            \A other \in 1..buffer_len :
                \/ MatrixGet(matrix, query_len, col).cost
                     < MatrixGet(matrix, query_len, other).cost
                \/ /\ MatrixGet(matrix, query_len, col).cost
                        = MatrixGet(matrix, query_len, other).cost
                   /\ col >= other

\* A scan that keeps the value it starts from
LastBufferEnd(matrix, query_len, buffer_len) == buffer_len

\* The scan of the last row: columns 1..=buffer_len, strict improvement only,
\* starting from best_buffer_end = buffer_len.
BestBufferEnd(matrix, query_len, buffer_len) ==
    IF buffer_len = 0
    THEN 0
    ELSE CHOOSE col \in 1..buffer_len :
            \A other \in 1..buffer_len :
                \/ MatrixGet(matrix, query_len, col).cost
                     < MatrixGet(matrix, query_len, other).cost
                \/ /\ MatrixGet(matrix, query_len, col).cost
                        = MatrixGet(matrix, query_len, other).cost
                   /\ col <= other

\* The traceback loop; yields buffer_ix at its exit.
RECURSIVE Traceback(_, _, _)
Traceback(matrix, query_ix, buffer_ix) ==
    IF query_ix > 0 /\ buffer_ix > 0
    THEN LET direction == MatrixGet(matrix, query_ix, buffer_ix).direction
         IN  CASE direction = "Diagonal" -> Traceback(matrix, query_ix - 1, buffer_ix - 1)
               [] direction = "Up" -> Traceback(matrix, query_ix - 1, buffer_ix)
               [] direction = "Left" -> Traceback(matrix, query_ix, buffer_ix - 1)
    ELSE buffer_ix

\* The match as the traceback gives it, not widened to whole lines
UnsnappedMatch(buffer, matrix, query_len) ==
    LET best_buffer_end == BestBufferEnd(matrix, query_len, Len(buffer))
    IN  Range(Traceback(matrix, query_len, best_buffer_end), best_buffer_end)

\* resolve_location once the matrix is filled: the scan of the last row, the
\* traceback, and the snap of both ends to whole lines
SnappedMatch(buffer, matrix, query_len) ==
    LET best_buffer_end == BestBufferEnd(matrix, query_len, Len(buffer))
        start_offset == Traceback(matrix, query_len, best_buffer_end)
        end_offset == best_buffer_end
    IN  Range(LineStart(buffer, start_offset), LineEnd(buffer, end_offset))

resolve_location(buffer, search_query) ==
    CHOOSE range \in {SnappedMatch(buffer, matrix, Len(search_query)) :
                         matrix \in {SearchMatrix(buffer, search_query)}} : TRUE

(***************************************************************************)
(* Per-kind resolution: AssistantEditKind::locate                          *)
(***************************************************************************)

NoDescription == <<>>

LocatedEdit(range, new_text, description, input_ix) ==
    [range |-> range, new_text |-> new_text, description |-> description,
     input_ix |-> input_ix]

\* Every kind located the way an Update is
locate_as_update(kind, input_ix, buffer) ==
    LocatedEdit(resolve_location(buffer, kind.old_text), kind.new_text,
                kind.description, input_ix)

locate(kind, input_ix, buffer) ==
    CASE kind.op = "Update" ->
            LocatedEdit(resolve_location(buffer, kind.old_text), kind.new_text,
                        kind.description, input_ix)
      [] kind.op = "Create" ->
            LocatedEdit(Range(0, Len(buffer)), kind.new_text, kind.description, input_ix)
      [] kind.op = "InsertBefore" ->
            LET range == resolve_location(buffer, kind.old_text)
            IN  LocatedEdit(Range(range.start, range.start), kind.new_text \o <<NL>>,
                            kind.description, input_ix)
      [] kind.op = "InsertAfter" ->
            LET range == resolve_location(buffer, kind.old_text)
            IN  LocatedEdit(Range(range.end, range.end), <<NL>> \o kind.new_text,
                            kind.description, input_ix)
      [] kind.op = "Delete" ->
            LocatedEdit(resolve_location(buffer, kind.old_text), <<>>,
                        NoDescription, input_ix)

(***************************************************************************)
(* The data model                                                          *)
(***************************************************************************)

\* Option<T>: None is <<>>, Some(x) is <<x>>
None == <<>>

Some(x) == <<x>>

\* The provenance keys (AssistantPatch::range, the key of PatchStore::entries)
Keys == {"k1", "k2"}

\* The paths of the project, in the order of Arc<Path>'s Ord
PathOrder == <<"a.rs", "b.rs">>

Paths == {PathOrder[i] : i \in DOMAIN PathOrder}

PathRank(path) == CHOOSE i \in DOMAIN PathOrder : PathOrder[i] = path

\* AssistantEdit { path, kind }; a kind holds the fields of its variant, the
\* others are empty.  A description is None or Some(sequence of lines).
Update(path, old_text, new_text, description) ==
    [path |-> path,
     kind |-> [op |-> "Update", old_text |-> old_text, new_text |-> new_text,
               description |-> description]]

InsertBefore(path, old_text, new_text, description) ==
    [path |-> path,
     kind |-> [op |-> "InsertBefore", old_text |-> old_text, new_text |-> new_text,
               description |-> description]]

InsertAfter(path, old_text, new_text, description) ==
    [path |-> path,
     kind |-> [op |-> "InsertAfter", old_text |-> old_text, new_text |-> new_text,
               description |-> description]]

Delete(path, old_text) ==
    [path |-> path,
     kind |-> [op |-> "Delete", old_text |-> old_text, new_text |-> <<>>,
               description |-> None]]

Create(path, new_text, description) ==
    [path |-> path,
     kind |-> [op |-> "Create", old_text |-> <<>>, new_text |-> new_text,
               description |-> description]]

\* Result<AssistantEdit>
Ok(edit) == [ok |-> TRUE, edit |-> edit]

Err(message) == [ok |-> FALSE, message |-> message]

\* A constructor that takes a missing old_text or new_text for the empty text
AssistantEditNewLenient(path, operation, old_text, new_text, description) ==
    LET old == IF old_text = None THEN <<>> ELSE old_text[1]
        new == IF new_text = None THEN <<>> ELSE new_text[1]
    IN  IF path = None THEN Err("missing path")
        ELSE IF operation = None THEN Err("missing operation")
        ELSE CASE operation[1] = "update" -> Ok(Update(path[1], old, new, description))
               [] operation[1] = "insert_before" ->
                    Ok(InsertBefore(path[1], old, new, description))
               [] operation[1] = "insert_after" ->
                    Ok(InsertAfter(path[1], old, new, description))
               [] operation[1] = "delete" -> Ok(Delete(path[1], old))
               [] operation[1] = "create" -> Ok(Create(path[1], new, description))
               [] OTHER -> Err("unknown operation")

\* AssistantEdit::new: the fields are Option<String>; the first that is
\* missing and needed ends the constructor with its error
AssistantEditNew(path, operation, old_text, new_text, description) ==
    IF path = None THEN Err("missing path")
    ELSE IF operation = None THEN Err("missing operation")
    ELSE CASE operation[1] \in {"update", "insert_before", "insert_after"} ->
                IF old_text = None THEN Err("missing old_text")
                ELSE IF new_text = None THEN Err("missing new_text")
                ELSE (CASE operation[1] = "update" ->
                             Ok(Update(path[1], old_text[1], new_text[1], description))
                        [] operation[1] = "insert_before" ->
                             Ok(InsertBefore(path[1], old_text[1], new_text[1], description))
                        [] operation[1] = "insert_after" ->
                             Ok(InsertAfter(path[1], old_text[1], new_text[1], description)))
           [] operation[1] = "delete" ->
                IF old_text = None THEN Err("missing old_text")
                ELSE Ok(Delete(path[1], old_text[1]))
           [] operation[1] = "create" ->
                IF new_text = None THEN Err("missing new_text")
                ELSE Ok(Create(path[1], new_text[1], description))
           [] OTHER -> Err("unknown operation")

\* AssistantPatch; title and status are never read by the store
AssistantPatch(range, edits) == [range |-> range, edits |-> edits]

LocatedPatch(buffers, input) == [buffers |-> buffers, input |-> input]

LocatedPatchBuffer(path, content, edits) ==
    [path |-> path, content |-> content, edits |-> edits]

PatchStoreEntry(patch, locate_task) == [patch |-> patch, locate_task |-> locate_task]

InsertAt(seq, ix, x) == SubSeq(seq, 1, ix - 1) \o <<x>> \o SubSeq(seq, ix, Len(seq))

(***************************************************************************)
(* The incremental locator: PatchStore::locate_patch, one iteration of its *)
(* loop over patch.edits per step                                          *)
(***************************************************************************)

\* binary_search_by_key(&&path, |buffer| &buffer.path): Ok(ix) is ix, Err(_) is 0
BufferIx(outputs, path) ==
    IF \E i \in DOMAIN outputs : outputs[i].path = path
    THEN CHOOSE i \in DOMAIN outputs : outputs[i].path = path
    ELSE 0

\* A buffer put at the end of the list, wherever its path sorts
BufferAppendIx(outputs, path) == Len(outputs) + 1

\* The Err(ix) of that search: where the path goes in the path-sorted list
BufferInsertIx(outputs, path) ==
    1 + Cardinality({i \in DOMAIN outputs : PathRank(outputs[i].path) < PathRank(path)})

\* A search that never finds the edit: every edit is then located afresh
PositionFindsNothing(old_input_edits, input_edit) == None

\* old_input_edits.iter().position(|old_input_edit| old_input_edit == input_edit)
Position(old_input_edits, input_edit) ==
    IF \E i \in DOMAIN old_input_edits : old_input_edits[i] = input_edit
    THEN Some(CHOOSE i \in DOMAIN old_input_edits :
                /\ old_input_edits[i] = input_edit
                /\ \A j \in 1..(i - 1) : old_input_edits[j] # input_edit)
    ELSE None

\* .and_then(|old_input_edit_ix| old_buffer?.edits.iter().find(..input_ix == ..))
old_located_edit(old_input_edits, old_buffer, input_edit) ==
    LET position == Position(old_input_edits, input_edit)
    IN  IF position = None \/ old_buffer = None
        THEN None
        ELSE LET edits == old_buffer[1].edits
                 hits == {i \in DOMAIN edits : edits[i].input_ix = position[1]}
             IN  IF hits = {}
                 THEN None
                 ELSE Some(edits[CHOOSE i \in hits : \A j \in hits : i <= j])

\* An insertion that keeps the edit already at the same start
InsertEditKeepingBoth(edits, located_edit) ==
    InsertAt(edits,
             1 + Cardinality({i \in DOMAIN edits :
                                edits[i].range.start < located_edit.range.start}),
             located_edit)

\* match new_buffer.edits.binary_search_by_key(&&located_edit.range.start, ..):
\* Ok(ix) replaces the edit at ix, Err(ix) inserts at ix
InsertEdit(edits, located_edit) ==
    IF \E i \in DOMAIN edits : edits[i].range.start = located_edit.range.start
    THEN LET ix == CHOOSE i \in DOMAIN edits :
                        edits[i].range.start = located_edit.range.start
         IN  [edits EXCEPT ![ix] = located_edit]
    ELSE LET ix == 1 + Cardinality({i \in DOMAIN edits :
                        edits[i].range.start < located_edit.range.start})
         IN  InsertAt(edits, ix, located_edit)

\* A located edit that keeps the index it has
keep_input_ix(located_edit, input_edit_ix) == located_edit

\* located_edit.input_ix = input_edit_ix
with_input_ix(located_edit, input_edit_ix) ==
    [located_edit EXCEPT !.input_ix = input_edit_ix]

\* A locate task that starts without the previous located patch
LocateTaskFromScratch(range, patch, prev_patch) ==
    [range |-> range, patch |-> patch, old_located_patch |-> LocatedPatch(<<>>, patch),
     input_edit_ix |-> 1, new_outputs |-> <<>>]

\* A locate task: the future spawned by PatchStore::insert.  input_edit_ix
\* is the loop index.
LocateTask(range, patch, prev_patch) ==
    [range |-> range, patch |-> patch, old_located_patch |-> prev_patch,
     input_edit_ix |-> 1, new_outputs |-> <<>>]

\* Whether the iteration has to load the content of its edit's path: the
\* path is in neither new_outputs nor the previous located patch.
NeedsOpen(task) ==
    LET path == task.patch.edits[task.input_edit_ix].path
    IN  /\ BufferIx(task.new_outputs, path) = 0
        /\ BufferIx(task.old_located_patch.buffers, path) = 0

\* One iteration of the loop over patch.edits.  opened is what loading the
\* path gave, when the iteration needs it: Some(content), or None when
\* open_buffer_for_edit_path gave None or the open failed (log_err).
\* Gives the task after the iteration, and whether the iteration sent its
\* edit to the background executor for a fresh resolve_location.
locate_patch_iteration(task, opened) ==
    LET input_edit_ix == task.input_edit_ix
        input_edit == task.patch.edits[input_edit_ix]
        path == input_edit.path
        old_input_edits == task.old_located_patch.input.edits
        old_outputs == task.old_located_patch.buffers
        new_outputs == task.new_outputs
        new_buffer_ix == BufferIx(new_outputs, path)
        old_buffer_ix == BufferIx(old_outputs, path)
        old_buffer == IF old_buffer_ix = 0 THEN None ELSE Some(old_outputs[old_buffer_ix])
        content ==
            IF new_buffer_ix # 0 THEN Some(new_outputs[new_buffer_ix].content)
            ELSE IF old_buffer # None THEN Some(old_buffer[1].content)
            ELSE opened
    IN  IF content = None
        THEN \* continue
             [task |-> [task EXCEPT !.input_edit_ix = @ + 1], aligned |-> FALSE]
        ELSE LET ix == IF new_buffer_ix # 0 THEN new_buffer_ix
                       ELSE BufferInsertIx(new_outputs, path)
                 with_buffer ==
                     IF new_buffer_ix # 0 THEN new_outputs
                     ELSE InsertAt(new_outputs, ix,
                                   LocatedPatchBuffer(path, content[1], <<>>))
                 new_buffer == with_buffer[ix]
                 old_edit == old_located_edit(old_input_edits, old_buffer, input_edit)
                 found == IF old_edit # None
                          THEN old_edit[1]
                          ELSE locate(input_edit.kind, input_edit_ix, new_buffer.content)
             IN  CHOOSE iteration \in
                    {[task |->
                        [task EXCEPT
                           !.input_edit_ix = @ + 1,
                           !.new_outputs =
                               [with_buffer EXCEPT
                                  ![ix].edits = InsertEdit(@, located_edit)]],
                      aligned |-> (old_edit = None)] :
                        located_edit \in {with_input_ix(found, input_edit_ix)}} :
                    TRUE

(***************************************************************************)
(* The text-buffer capability the store consumes (language::Buffer and     *)
(* text::Anchor are not part of the sources; section 6 of the spec).       *)
(* An anchor is an offset of the buffer's text when the anchor was made    *)
(* and a bias.  A branch buffer keeps, for every offset of the text it was *)
(* branched from, where a left- and a right-biased anchor now resolve.     *)
(* The buffers have no language, so AutoindentMode::Block leaves the       *)
(* inserted text as given.                                                 *)
(***************************************************************************)

Anchor(offset, bias) == [offset |-> offset, bias |-> bias]

anchor_before(offset) == Anchor(offset, "Left")

anchor_after(offset) == Anchor(offset, "Right")

\* Anchor::cmp(..).is_lt()
AnchorLt(a, b) ==
    \/ a.offset < b.offset
    \/ a.offset = b.offset /\ a.bias = "Left" /\ b.bias = "Right"

\* Buffer::branch: an independent copy of the buffer's text
BranchBuffer(text) ==
    [text |-> text,
     left |-> [o \in 0..Len(text) |-> o],
     right |-> [o \in 0..Len(text) |-> o],
     edits |-> 0]

\* Anchor::to_offset in the branch as it is now
AnchorOffset(branch, anchor) ==
    IF anchor.bias = "Left" THEN branch.left[anchor.offset]
    ELSE branch.right[anchor.offset]

\* Buffer::edit([(range, new_text)], ..): [buffer, edit_id].  An empty range
\* with empty text edits nothing and has no edit id.
BufferEdit(branch, range, new_text) ==
    LET a == AnchorOffset(branch, range.start)
        b == AnchorOffset(branch, range.end)
        p == Min2(a, b)
        q == Max2(a, b)
        t == Len(new_text)
        moved(x) == Max2(x, q) - (q - p) + t
    IN  IF p = q /\ t = 0
        THEN [buffer |-> branch, edit_id |-> None]
        ELSE [buffer |->
                [text |-> Slice(branch.text, 0, p) \o new_text
                            \o Slice(branch.text, q, Len(branch.text)),
                 left |-> [o \in DOMAIN branch.left |->
                             IF branch.left[o] <= p THEN branch.left[o]
                             ELSE moved(branch.left[o])],
                 right |-> [o \in DOMAIN branch.right |->
                             IF branch.right[o] < p THEN branch.right[o]
                             ELSE moved(branch.right[o])],
                 edits |-> branch.edits + 1],
              edit_id |-> Some(branch.edits + 1)]

\* The length of the longest common prefix of two texts
CommonPrefix(a, b) ==
    CHOOSE n \in 0..Min2(Len(a), Len(b)) :
        /\ \A i \in 1..n : a[i] = b[i]
        /\ (n = Min2(Len(a), Len(b)) \/ a[n + 1] # b[n + 1])

\* The length of the longest common suffix that leaves the first n bytes out
CommonSuffix(a, b, n) ==
    LET most == Min2(Len(a), Len(b)) - n
    IN  CHOOSE m \in 0..most :
            /\ \A i \in 0..(m - 1) : a[Len(a) - i] = b[Len(b) - i]
            /\ (m = most \/ a[Len(a) - m] # b[Len(b) - m])

\* diff(old, new): the ordered hunks (range of old, new text) that turn old
\* into new; here the one hunk between the common prefix and common suffix.
Diff(old, new) ==
    IF old = new
    THEN <<>>
    ELSE LET n == CommonPrefix(old, new)
             m == CommonSuffix(old, new, n)
         IN  <<[range |-> Range(n, Len(old) - m),
                new_text |-> Slice(new, n, Len(new) - m)]>>

(***************************************************************************)
(* The drift adjuster: the loop of create_branch_for_patch over diff.edits *)
(***************************************************************************)

\* usize is 64 bits wide; the model keeps 16, which every text of the model
\* fits many times over, so a wrapped offset is past the end of every text.
UsizeModulus == 65536

\* (x as isize + delta) as usize
AsUsize(x) == x % UsizeModulus

\* usize::saturating_sub
SaturatingSub(a, b) == IF a >= b THEN a - b ELSE 0

\* The inner while loop for one hunk: [edits, ix], ix the edit peeked next.
RECURSIVE AdjustWhile(_, _, _, _)
AdjustWhile(edits, ix, hunk, delta) ==
    IF ix > Len(edits)
    THEN [edits |-> edits, ix |-> ix]
    ELSE LET edit == edits[ix]
             diff_range == hunk.range
         IN  IF diff_range.start >= edit.range.end
             THEN [edits |-> edits, ix |-> ix]
             ELSE LET widened ==
                          IF diff_range.end > edit.range.start
                          THEN Range(Min2(edit.range.start, diff_range.start),
                                     diff_range.start + Len(hunk.new_text)
                                       + SaturatingSub(edit.range.end, diff_range.end))
                          ELSE edit.range
                      shifted == Range(AsUsize(widened.start + delta),
                                       AsUsize(widened.end + delta))
                  IN  AdjustWhile([edits EXCEPT ![ix].range = shifted],
                                  ix + 1, hunk, delta)

\* The loop over diff.edits, then the loop over the edits left over.
RECURSIVE AdjustEdits(_, _, _, _)
AdjustEdits(edits, ix, hunks, delta) ==
    IF hunks = <<>>
    THEN [i \in DOMAIN edits |->
            IF i < ix THEN edits[i]
            ELSE [edits[i] EXCEPT
                    !.range = Range(AsUsize(edits[i].range.start + delta),
                                    AsUsize(edits[i].range.end + delta))]]
    ELSE LET hunk == Head(hunks)
             step == AdjustWhile(edits, ix, hunk, delta)
         IN  AdjustEdits(step.edits, step.ix, Tail(hunks),
                         delta + (Len(hunk.new_text) - RangeLen(hunk.range)))

\* The loops started with a delta of 1
adjust_edits_from_one(edits, diff_edits) == AdjustEdits(edits, 1, diff_edits, 1)

adjust_edits(edits, diff_edits) == AdjustEdits(edits, 1, diff_edits, 0)

(***************************************************************************)
(* The edit grouper: ResolvedEdit::try_merge and AssistantPatch::group_edits*)
(* Anchors of resolved edits are anchors of the snapshot, so to_offset and *)
(* to_point read the anchor's own offset.                                  *)
(***************************************************************************)

ResolvedEdit(range, new_text, description) ==
    [range |-> range, new_text |-> new_text, description |-> description]

\* A merge that never takes place
try_merge_never(self, other) == [merged |-> FALSE, edit |-> self]

\* self.try_merge(other, buffer): [merged, edit], edit being self afterwards
try_merge(self, other) ==
    LET range == self.range
        other_range == other.range
    IN  IF AnchorLt(other_range.start, range.start) \/ AnchorLt(range.end, other_range.end)
        THEN [merged |-> FALSE, edit |-> self]
        ELSE IF /\ other_range.start.offset = other_range.end.offset
                /\ other_range.start.offset = range.start.offset
             THEN [merged |-> TRUE,
                   edit |->
                     [range |-> [start |-> other_range.start, end |-> range.end],
                      new_text |-> other.new_text \o <<NL>> \o self.new_text,
                      description |->
                        IF self.description # None /\ other.description # None
                        THEN Some(other.description[1] \o self.description[1])
                        ELSE self.description]]
             ELSE [merged |-> TRUE,
                   edit |->
                     [self EXCEPT
                        !.description =
                          IF self.description # None /\ other.description # None
                          THEN Some(self.description[1] \o other.description[1])
                          ELSE self.description]]

\* a.range.cmp(&b.range, snapshot) is not Greater: by start, and for equal
\* starts the larger range first
RangeCmpLe(a, b) ==
    \/ AnchorLt(a.start, b.start)
    \/ a.start = b.start /\ ~AnchorLt(a.end, b.end)

\* The edits left in the order they were given
UnsortedEdits(sorted, rest) == sorted \o rest

\* edits.sort_by(..): a stable sort
RECURSIVE SortEdits(_, _)
SortEdits(sorted, rest) ==
    IF rest = <<>>
    THEN sorted
    ELSE LET edit == Head(rest)
             ix == 1 + Cardinality({i \in DOMAIN sorted :
                                      RangeCmpLe(sorted[i].range, edit.range)})
         IN  SortEdits(InsertAt(sorted, ix, edit), Tail(rest))

\* edits.dedup_by(|a, b| b.try_merge(a, snapshot)): b is the edit kept last,
\* a the one after it, removed when the merge took place
RECURSIVE DedupEdits(_, _)
DedupEdits(kept, rest) ==
    IF rest = <<>>
    THEN kept
    ELSE IF kept = <<>>
         THEN DedupEdits(<<Head(rest)>>, Tail(rest))
         ELSE LET merge == try_merge(kept[Len(kept)], Head(rest))
              IN  IF merge.merged
                  THEN DedupEdits([kept EXCEPT ![Len(kept)] = merge.edit], Tail(rest))
                  ELSE DedupEdits(Append(kept, Head(rest)), Tail(rest))

\* The rows of context kept above and below an edit
CONTEXT_ROWS == 5

\* A context range of one row less on either side
NarrowContextRange(edit, snapshot) ==
    LET rows == CONTEXT_ROWS - 1
        start_row == SaturatingSub(RowOf(snapshot, edit.range.start.offset), rows)
        end_row == Min2(RowOf(snapshot, edit.range.end.offset) + rows, MaxRow(snapshot))
    IN  [start |-> anchor_before(RowStart(snapshot, start_row)),
         end |-> anchor_after(LineEnd(snapshot, RowStart(snapshot, end_row)))]

\* The context range of one edit
ContextRange(edit, snapshot) ==
    LET start_row == SaturatingSub(RowOf(snapshot, edit.range.start.offset), CONTEXT_ROWS)
        end_row == Min2(RowOf(snapshot, edit.range.end.offset) + CONTEXT_ROWS,
                        MaxRow(snapshot))
        end_row_start == RowStart(snapshot, end_row)
    IN  [start |-> anchor_before(RowStart(snapshot, start_row)),
         end |-> anchor_after(LineEnd(snapshot, end_row_start))]

\* The loop that builds the groups
RECURSIVE GroupLoop(_, _, _)
GroupLoop(edit_groups, edits, snapshot) ==
    IF edits = <<>>
    THEN edit_groups
    ELSE LET edit == Head(edits)
             context_range == ContextRange(edit, snapshot)
             n == Len(edit_groups)
         IN  IF n > 0 /\ ~AnchorLt(edit_groups[n].context_range.end, context_range.start)
             THEN GroupLoop([edit_groups EXCEPT
                               ![n].context_range.end = context_range.end,
                               ![n].edits = Append(@, edit)],
                            Tail(edits), snapshot)
             ELSE GroupLoop(Append(edit_groups,
                                   [context_range |-> context_range, edits |-> <<edit>>]),
                            Tail(edits), snapshot)

group_edits(edits, snapshot) ==
    GroupLoop(<<>>, DedupEdits(<<>>, SortEdits(<<>>, edits)), snapshot)

(***************************************************************************)
(* The branch materializer: the body of the loop of                        *)
(* create_branch_for_patch over patch.buffers, for a buffer that opened    *)
(***************************************************************************)

\* The edits of one group applied in order: [buffer, edits]
RECURSIVE ApplyGroupEdits(_, _, _)
ApplyGroupEdits(branch, edits, done) ==
    IF edits = <<>>
    THEN [buffer |-> branch, edits |-> done]
    ELSE LET edit == Head(edits)
             applied == BufferEdit(branch, edit.range, edit.new_text)
         IN  ApplyGroupEdits(applied.buffer, Tail(edits),
                             Append(done, [range |-> edit.range,
                                           new_text |-> edit.new_text,
                                           description |-> edit.description,
                                           edit_id |-> applied.edit_id]))

\* The groups applied in order: [buffer, groups]
RECURSIVE ApplyGroups(_, _, _)
ApplyGroups(branch, groups, done) ==
    IF groups = <<>>
    THEN [buffer |-> branch, groups |-> done]
    ELSE LET group == Head(groups)
             applied == ApplyGroupEdits(branch, group.edits, <<>>)
         IN  ApplyGroups(applied.buffer, Tail(groups),
                         Append(done, [context_range |-> group.context_range,
                                       edits |-> applied.edits]))

\* Whether every adjusted range is a range of the snapshot; anchor_before and
\* anchor_after of an offset past the end of the text panic.
RangesInSnapshot(edits, snapshot) ==
    \A i \in DOMAIN edits : edits[i].range.start <= Len(snapshot)
                            /\ edits[i].range.end <= Len(snapshot)

\* patch_buffer materialized on a branch of a buffer whose text is text:
\* [panicked, buffer, groups]
materialize_buffer(patch_buffer, text) ==
    LET snapshot == text
        diff == Diff(patch_buffer.content, snapshot)
        adjusted == adjust_edits(patch_buffer.edits, diff)
    IN  IF ~RangesInSnapshot(adjusted, snapshot)
        THEN [panicked |-> TRUE, buffer |-> BranchBuffer(text), groups |-> <<>>]
        ELSE LET resolved ==
                     [i \in DOMAIN adjusted |->
                        ResolvedEdit([start |-> anchor_before(adjusted[i].range.start),
                                      end |-> anchor_after(adjusted[i].range.end)],
                                     adjusted[i].new_text, adjusted[i].description)]
                 grouped == group_edits(resolved, snapshot)
                 applied == ApplyGroups(BranchBuffer(text), grouped, <<>>)
             IN  [panicked |-> FALSE, buffer |-> applied.buffer, groups |-> applied.groups]

(***************************************************************************)
(* The patch store as a state machine                                      *)
(***************************************************************************)

\* The bounds of the model
MaxInserts == 2
MaxBranches == 1
MaxEnvSteps == 1

\* The files of the project when the store is created
InitialText(path) ==
    IF path = "a.rs" THEN <<"1", NL, "2", NL, "3">> ELSE <<"1", NL, "2">>

\* The paths whose load may fail
FailingPaths == {"b.rs"}

\* The paths the user edits
EditedPaths == {"a.rs"}

\* The edits the assistant proposes
E1 == Update("a.rs", <<"1">>, <<"1", "0", "0">>, None)
E3 == Update("a.rs", <<"3">>, <<"3", "0", "0">>, None)
Eb == Update("b.rs", <<"2">>, <<"2", "0", "0">>, None)
E2 == Update("a.rs", <<"2">>, <<"2", "0", "0">>, None)
E2before == InsertBefore("a.rs", <<"2">>, <<"x">>, None)
E2after == InsertAfter("a.rs", <<"2">>, <<"y">>, None)
Enew == Create("a.rs", <<"9">>, None)

\* The edit lists of the revisions the host submits for a context range
Revisions(range) ==
    IF range = "k1" THEN {<<E1>>, <<E1, E3>>, <<E1, E1>>, <<Eb, E1>>}
    ELSE {<<E1>>, <<E2before, E2, E2after>>, <<Enew>>}

\* What the user may type into a live buffer: a line put before the first
TypedLine == <<"0", NL>>

VARIABLES
    entries,        \* PatchStore::entries: key -> PatchStoreEntry
    locate_tasks,   \* the locate tasks alive: task id -> LocateTask
    spawned,        \* the number of locate tasks spawned so far
    aligned,        \* whether the last step of a locate task ran resolve_location
    submitted,      \* key -> the edits of the last patch given to insert
    located,        \* key -> the edits of the patches located so far, in order
    branch_tasks,   \* the calls of create_branch_for_patch, in call order
    buffers,        \* buffer id -> text; <<0, path>> is the live buffer of path
    fs,             \* path -> "ok" | "error": whether loading the path works
    worktree,       \* whether the project has a worktree
    env_steps,      \* the number of steps the environment has taken
    fn_call         \* the function applied when one function is run by itself

vars ==
    <<entries, locate_tasks, spawned, aligned, submitted, located, branch_tasks, buffers, fs,
      worktree, env_steps, fn_call>>

\* The variables of the store and of its environment
store_vars ==
    <<entries, locate_tasks, spawned, aligned, submitted, located, branch_tasks, buffers, fs,
      worktree, env_steps>>

LiveBuffer(path) == <<0, path>>

\* HashMap::insert
Put(map, key, value) ==
    [k \in DOMAIN map \cup {key} |-> IF k = key THEN value ELSE map[k]]

\* A handle whose drop detaches the task instead of cancelling it
drop_task_detached(tasks, handle) == tasks

\* Dropping a Task handle: gpui cancels the task, it is never polled again
drop_task(tasks, handle) ==
    IF handle = None THEN tasks
    ELSE [id \in DOMAIN tasks \ {handle[1]} |-> tasks[id]]

\* A store that keeps one slot for all keys: the entry of whatever key it holds
entry_of_any_key(map, patch) ==
    IF map = <<>> THEN PatchStoreEntry(LocatedPatch(<<>>, patch), None)
    ELSE map[CHOOSE range \in DOMAIN map : TRUE]

\* self.entries.entry(range).or_insert_with(..)
entry_or_insert(map, patch) ==
    IF patch.range \in DOMAIN map THEN map[patch.range]
    ELSE PatchStoreEntry(LocatedPatch(<<>>, patch), None)

\* A lookup that makes up an empty entry for a key the store does not hold
entries_get_or_default(map, range) ==
    IF range \in DOMAIN map THEN Some(map[range])
    ELSE Some(PatchStoreEntry(LocatedPatch(<<>>, AssistantPatch(range, <<>>)), None))

\* A lookup that finds only the entries whose patch has located files
entries_get_located(map, range) ==
    IF range \in DOMAIN map /\ map[range].patch.buffers # <<>>
    THEN Some(map[range]) ELSE None

\* self.entries.get(&range)
entries_get(map, range) ==
    IF range \in DOMAIN map THEN Some(map[range]) ELSE None

\* A commit that leaves a job handle in the entry
committed_entry_with_handle(located_patch) == PatchStoreEntry(located_patch, Some(0))

\* The entry a finished locate task puts into the store
committed_entry(located_patch) == PatchStoreEntry(located_patch, None)

\* A materializer that edits the live buffer in place
branch_in_place(call, path) == <<0, path>>

\* buffer.branch(cx): the branch buffer of a call for a path
branch(call, path) == <<call, path>>

\* A materializer that reads the entry of the store again at every step
patch_buffers_of_entry(task, map) == map[task.range].patch.buffers

\* A branch task that adjusts the edits of the entry of its key in place: the
\* located edits of the file it handles are moved to where the loops over
\* the diff put them
entries_adjusted_in_place(map, task) ==
    IF \/ task.range \notin DOMAIN map
       \/ task.buffer_ix > Len(task.patch.buffers)
    THEN map
    ELSE LET patch_buffer == task.patch.buffers[task.buffer_ix]
             text == buffers[LiveBuffer(patch_buffer.path)]
             adjusted == adjust_edits(patch_buffer.edits, Diff(patch_buffer.content, text))
             held == map[task.range].patch.buffers
         IN  [map EXCEPT
                ![task.range].patch.buffers =
                    [b \in DOMAIN held |->
                       IF held[b].path = patch_buffer.path
                       THEN [held[b] EXCEPT !.edits = adjusted]
                       ELSE held[b]]]

\* let patch = entry.patch.clone(): the task owns the patch it works on, and
\* what its loops do to patch_buffer.edits stays with the task; the entries
\* of the store after a step of the task are the entries before it
entries_after_branch_step(map, task) == map

\* for mut patch_buffer in patch.buffers: the patch the call cloned
patch_buffers(task, map) == task.patch.buffers

\* An open that succeeds for every path, whatever the project and the file
\* system say
open_buffer_always(path) == Some(buffers[LiveBuffer(path)])

\* open_buffer_for_edit_path and the await of what it returns:
\* None, or Some("error"), or Some(text of the live buffer)
open_buffer_for_edit_path(path) ==
    IF ~worktree THEN None
    ELSE IF fs[path] = "error" THEN Some("error")
    ELSE Some(buffers[LiveBuffer(path)])

Init ==
    /\ entries = <<>>
    /\ locate_tasks = <<>>
    /\ spawned = 0
    /\ aligned = FALSE
    /\ submitted = <<>>
    /\ located = <<>>
    /\ branch_tasks = <<>>
    /\ buffers = [id \in {LiveBuffer(path) : path \in Paths} |-> InitialText(id[2])]
    /\ fs = [path \in Paths |-> "ok"]
    /\ worktree \in BOOLEAN
    /\ env_steps = 0
    /\ fn_call = None

\* PatchStore::insert
Insert(range, edits) ==
    /\ spawned < MaxInserts
    /\ LET patch == AssistantPatch(range, edits)
           entry == entry_or_insert(entries, patch)
           prev_patch == entry.patch
           id == spawned + 1
           kept == drop_task(locate_tasks, entry.locate_task)
       IN  /\ spawned' = id
           /\ locate_tasks' = Put(kept, id, LocateTask(range, patch, prev_patch))
           /\ entries' = Put(entries, range, [entry EXCEPT !.locate_task = Some(id)])
           /\ submitted' = Put(submitted, range, edits)
    /\ UNCHANGED <<aligned, located, branch_tasks, buffers, fs, worktree, fn_call, env_steps>>

\* this.entries.insert(range, ..) of a locate task whose locate_patch returned;
\* the entry it replaces is dropped, and with it the handle the entry held
commit(map, tasks, id, task) ==
    LET located_patch == LocatedPatch(task.new_outputs, task.patch)
        replaced == entries_get(map, task.range)
        others == [i \in DOMAIN tasks \ {id} |-> tasks[i]]
    IN  [entries |-> Put(map, task.range, committed_entry(located_patch)),
         locate_tasks |-> IF replaced = None THEN others
                          ELSE drop_task(others, replaced[1].locate_task)]

\* A locate task is polled: it runs an iteration of locate_patch's loop up to
\* the next await, and when the loop is over it puts its located patch into
\* the store before it yields again
LocateStep(id) ==
    /\ id \in DOMAIN locate_tasks
    /\ LET task == locate_tasks[id]
           got == open_buffer_for_edit_path(task.patch.edits[task.input_edit_ix].path)
           opened == IF got = None \/ got = Some("error") THEN None ELSE got
       IN  \E iteration \in {IF task.input_edit_ix <= Len(task.patch.edits)
                             THEN locate_patch_iteration(task, opened)
                             ELSE [task |-> task, aligned |-> FALSE]} :
              /\ aligned' = iteration.aligned
              /\ IF iteration.task.input_edit_ix <= Len(task.patch.edits)
                 THEN /\ locate_tasks' = [locate_tasks EXCEPT ![id] = iteration.task]
                      /\ UNCHANGED <<entries, located>>
                 ELSE \E done \in {commit(entries, locate_tasks, id, iteration.task)} :
                         /\ entries' = done.entries
                         /\ locate_tasks' = done.locate_tasks
                         /\ located' =
                               Put(located, task.range,
                                   Append(IF task.range \in DOMAIN located
                                          THEN located[task.range] ELSE <<>>,
                                          task.patch.edits))
    /\ UNCHANGED <<spawned, submitted, branch_tasks, buffers, fs, worktree, fn_call, env_steps>>

BranchTask(range, status, patch) ==
    [range |-> range, status |-> status, patch |-> patch, buffer_ix |-> 1,
     edit_groups |-> <<>>, errors |-> <<>>]

\* PatchStore::create_branch_for_patch, up to the spawn
CreateBranch(range) ==
    /\ Len(branch_tasks) < MaxBranches
    /\ LET entry == entries_get(entries, range)
       IN  branch_tasks' =
              Append(branch_tasks,
                     IF entry = None
                     THEN BranchTask(range, "not_found", None)
                     ELSE BranchTask(range, "running", entry[1].patch))
    /\ UNCHANGED <<entries, locate_tasks, spawned, aligned, submitted, located, buffers, fs, worktree, fn_call,
                   env_steps>>

\* The status of a call after it handled a buffer: Ok(result) once
\* patch.buffers is exhausted
AfterBuffer(task, map) ==
    IF task.status = "running" /\ task.buffer_ix > Len(patch_buffers(task, map))
    THEN [task EXCEPT !.status = "ok"]
    ELSE task

\* The spawned task is polled: it handles one buffer of the patch, and returns
\* when there is none left
BranchStep(call) ==
    /\ call \in DOMAIN branch_tasks
    /\ LET task == branch_tasks[call]
       IN  /\ task.status = "running"
           /\ IF task.buffer_ix > Len(patch_buffers(task, entries))
              THEN /\ branch_tasks' = [branch_tasks EXCEPT ![call] = AfterBuffer(task, entries)]
                   /\ UNCHANGED buffers
              ELSE
              LET patch_buffer == patch_buffers(task, entries)[task.buffer_ix]
                  buffer == open_buffer_for_edit_path(patch_buffer.path)
              IN  IF buffer = None
                  THEN /\ branch_tasks' =
                             [branch_tasks EXCEPT ![call] =
                                 AfterBuffer([task EXCEPT !.buffer_ix = @ + 1], entries)]
                       /\ UNCHANGED buffers
                  ELSE IF buffer = Some("error")
                  THEN /\ branch_tasks' = [branch_tasks EXCEPT ![call].status = "error"]
                       /\ UNCHANGED buffers
                  ELSE \E done \in {materialize_buffer(patch_buffer, buffer[1])} :
                       LET branch_buffer == branch(call, patch_buffer.path)
                       IN  IF done.panicked
                           THEN /\ branch_tasks' =
                                      [branch_tasks EXCEPT ![call].status = "panicked"]
                                /\ buffers' = Put(buffers, branch_buffer, buffer[1])
                           ELSE /\ branch_tasks' =
                                      [branch_tasks EXCEPT ![call] =
                                         AfterBuffer(
                                           [task EXCEPT
                                              !.buffer_ix = @ + 1,
                                              !.edit_groups =
                                                 Append(@, [buffer |-> branch_buffer,
                                                            path |-> patch_buffer.path,
                                                            base |-> buffer[1],
                                                            groups |-> done.groups])],
                                           entries)]
                                /\ buffers' = Put(buffers, branch_buffer, done.buffer.text)
    /\ entries' = entries_after_branch_step(entries, branch_tasks[call])
    /\ UNCHANGED <<locate_tasks, spawned, aligned, submitted, located, fs, worktree, fn_call, env_steps>>

\* The user types a line into a live buffer
EditLive(path) ==
    /\ env_steps < MaxEnvSteps
    /\ env_steps' = env_steps + 1
    /\ buffers' = [buffers EXCEPT ![LiveBuffer(path)] = TypedLine \o @]
    /\ UNCHANGED <<entries, locate_tasks, spawned, aligned, submitted, located, branch_tasks, fs, worktree, fn_call>>

\* Loading a path starts or stops failing
FsChange(path) ==
    /\ env_steps < MaxEnvSteps
    /\ env_steps' = env_steps + 1
    /\ fs' = [fs EXCEPT ![path] = IF @ = "ok" THEN "error" ELSE "ok"]
    /\ UNCHANGED <<entries, locate_tasks, spawned, aligned, submitted, located, branch_tasks, buffers,
                   worktree, fn_call>>

\* A locate task that ends with an error and still puts what it has located
\* into the store
locate_error_commits(map, tasks, id) == commit(map, tasks, id, tasks[id])

\* Self::locate_patch(..).await? in the task insert spawns: when locate_patch
\* returns an error the task returns it before this.update, so the entries
\* are not written; the task is over
locate_error(map, tasks, id) ==
    [entries |-> map,
     locate_tasks |-> [i \in DOMAIN tasks \ {id} |-> tasks[i]]]

\* A locate task is polled and locate_patch fails: the buffer of a path it
\* had to load was opened, and buffer.read_with(..)? returns an error, which
\* it does when the application is being dropped
LocateError(id) ==
    /\ id \in DOMAIN locate_tasks
    /\ LET task == locate_tasks[id]
       IN  /\ task.input_edit_ix <= Len(task.patch.edits)
           /\ NeedsOpen(task)
           /\ LET got == open_buffer_for_edit_path(
                             task.patch.edits[task.input_edit_ix].path)
              IN  got # None /\ got # Some("error")
    /\ \E failed \in {locate_error(entries, locate_tasks, id)} :
          /\ entries' = failed.entries
          /\ locate_tasks' = failed.locate_tasks
    /\ UNCHANGED <<spawned, aligned, submitted, located, branch_tasks, buffers, fs,
                   worktree, fn_call, env_steps>>

Next ==
    \/ \E range \in Keys : \E edits \in Revisions(range) : Insert(range, edits)
    \/ \E id \in 1..MaxInserts : LocateStep(id)
    \/ \E range \in Keys : CreateBranch(range)
    \/ \E call \in 1..MaxBranches : BranchStep(call)
    \/ \E path \in EditedPaths : EditLive(path)
    \/ \E path \in FailingPaths : FsChange(path)

Spec == Init /\ [][Next]_vars

(***************************************************************************)
(* The scheduling of the tasks: the foreground executor polls every task   *)
(* that is ready, so a locate task that can step eventually steps.         *)
(***************************************************************************)

FairSpec == Spec /\ \A id \in 1..MaxInserts : WF_vars(LocateStep(id))

(***************************************************************************)
(* Properties of the patch store                                           *)
(***************************************************************************)

\* The ids of the locate tasks alive for a key
JobsOf(range) == {id \in DOMAIN locate_tasks : locate_tasks[id].range = range}

\* Every locate task alive is the one its entry's handle names
AtMostOneJob ==
    \A id \in DOMAIN locate_tasks :
        LET range == locate_tasks[id].range
        IN  range \in DOMAIN entries /\ entries[range].locate_task = Some(id)

\* A step that replaces the cached patch of a key writes the output of the
\* task the entry's handle names, which is the task started last for the key
CommitByNewestJob ==
    \A range \in DOMAIN entries :
        entries'[range].patch # entries[range].patch =>
            /\ entries[range].locate_task # None
            /\ entries[range].locate_task[1] \in DOMAIN locate_tasks
            /\ \A id \in JobsOf(range) : id <= entries[range].locate_task[1]
            /\ entries'[range].patch.input =
                   locate_tasks[entries[range].locate_task[1]].patch
            /\ entries'[range].patch.input.edits = submitted[range]

\* C1: once a newer locate task has been started for a key, a task started
\* earlier for the key never writes the cached patch: every key has at most
\* one task that can still commit, and the cached patch is only ever replaced
\* by the output of the task started last.
C1_SupersededJobNeverCommits == []AtMostOneJob /\ [][CommitByNewestJob]_vars

\* A second task runs for a key whose first revision was never committed,
\* and the first task is gone
C1_Witness ==
    /\ worktree
    /\ 2 \in DOMAIN locate_tasks
    /\ 1 \notin DOMAIN locate_tasks
    /\ locate_tasks[2].old_located_patch.buffers = <<>>
    /\ locate_tasks[2].old_located_patch.input.edits # locate_tasks[2].patch.edits

\* The buffer of a located patch for a path
PatchBufferFor(patch, path) == patch.buffers[BufferIx(patch.buffers, path)]

\* What a call has materialized so far is what the patch it captured when it
\* was made gives on the text the live buffer had when the file was branched
ResultOfCapturedPatch(task) ==
    \A i \in DOMAIN task.edit_groups :
        LET done == task.edit_groups[i]
        IN  /\ BufferIx(task.patch.buffers, done.path) # 0
            /\ LET expected ==
                       materialize_buffer(PatchBufferFor(task.patch, done.path), done.base)
               IN  /\ done.groups = expected.groups
                   /\ buffers[done.buffer] = expected.buffer.text

\* A step of a materialization leaves the entries and the locate tasks alone
MaterializeLeavesStoreAlone ==
    branch_tasks' # branch_tasks => entries' = entries /\ locate_tasks' = locate_tasks

\* C2: a materialization uses the located patch cached when the call was
\* made, whatever is submitted or committed for the key while it runs, and
\* it takes nothing from the store that a submit or a commit for the key
\* needs: its steps leave the entries and the locate tasks as they are.
C2_MaterializeUsesPatchAtCall ==
    /\ [](\A call \in DOMAIN branch_tasks :
             branch_tasks[call].status \in {"running", "ok"} =>
                 ResultOfCapturedPatch(branch_tasks[call]))
    /\ [][MaterializeLeavesStoreAlone]_vars

\* A call that has handled one buffer and has another left runs while the
\* cached patch of its key is no longer the one it captured
C2_Witness ==
    \E call \in DOMAIN branch_tasks :
        LET task == branch_tasks[call]
        IN  /\ task.status = "running"
            /\ Len(task.edit_groups) = 1
            /\ task.buffer_ix = 2
            /\ entries[task.range].patch # task.patch

\* C3: no step of the store (insert, locate task, create_branch_for_patch,
\* branch task) changes the text of a live buffer; only the user's typing does.
C3_LiveBuffersUnchanged ==
    [][env_steps' = env_steps =>
          \A path \in Paths : buffers'[LiveBuffer(path)] = buffers[LiveBuffer(path)]]_vars

\* A branch buffer holds edited text and the live buffer of its path does not
C3_Witness ==
    \E id \in DOMAIN buffers :
        /\ id[1] > 0
        /\ buffers[id] # buffers[LiveBuffer(id[2])]
        /\ buffers[LiveBuffer(id[2])] = InitialText(id[2])

\* What a call of create_branch_for_patch did, seen in the step that made it
NotFoundIffNoEntry ==
    Len(branch_tasks') = Len(branch_tasks) + 1 =>
        LET task == branch_tasks'[Len(branch_tasks')]
        IN  /\ task.status = "not_found" <=> task.range \notin DOMAIN entries
            /\ task.status = "not_found" =>
                  /\ entries' = entries
                  /\ locate_tasks' = locate_tasks
                  /\ buffers' = buffers

\* A call that failed with not-found never did any work
NotFoundDoesNothing ==
    \A call \in DOMAIN branch_tasks :
        branch_tasks[call].status = "not_found" =>
            /\ branch_tasks[call].edit_groups = <<>>
            /\ branch_tasks[call].buffer_ix = 1
            /\ \A id \in DOMAIN buffers : id[1] # call

\* C4: create_branch_for_patch for a key without an entry fails with the
\* not-found error, starts no work and leaves the store as it is; for a key
\* with an entry it does not fail with not-found.
C4_NotFoundForUnknownKey == [][NotFoundIffNoEntry]_vars /\ []NotFoundDoesNothing

\* A call failed with not-found while the store holds an entry for another key
C4_Witness ==
    \E call \in DOMAIN branch_tasks :
        /\ branch_tasks[call].status = "not_found"
        /\ branch_tasks[call].range \notin DOMAIN entries
        /\ entries # <<>>

\* The offsets at which the whole line of text is the excerpt old_text
LinesEqualTo(text, old_text) ==
    {o \in 0..Len(text) :
        /\ LineStart(text, o) = o
        /\ LineEnd(text, o) = o + Len(old_text)
        /\ Slice(text, o, o + Len(old_text)) = old_text}

\* text with the first line that is old_text replaced by new_text
ReplaceLine(text, old_text, new_text) ==
    LET found == LinesEqualTo(text, old_text)
    IN  IF found = {}
        THEN text
        ELSE LET o == CHOOSE x \in found : \A y \in found : x <= y
             IN  Slice(text, 0, o) \o new_text \o Slice(text, o + Len(old_text), Len(text))

\* text with every Update of edits applied to the line it quotes
RECURSIVE WithUpdates(_, _)
WithUpdates(text, edits) ==
    IF edits = <<>>
    THEN text
    ELSE WithUpdates(ReplaceLine(text, Head(edits).kind.old_text, Head(edits).kind.new_text),
                     Tail(edits))

\* Whether r2 is the revision r1 followed by one more Update of a file that
\* r1 edits
OneMoreUpdate(r1, r2) ==
    /\ r1 # <<>>
    /\ Len(r2) = Len(r1) + 1
    /\ SubSeq(r2, 1, Len(r1)) = r1
    /\ r2[Len(r2)].kind.op = "Update"
    /\ \A i \in DOMAIN r2 : r2[i].path = r2[1].path

\* Whether the patch a call captured is the located patch of a revision R2
\* that was located right after a revision R1 of which it is the extension
LocatedAfterShorterRevision(task) ==
    /\ task.patch.buffers # <<>>
    /\ task.range \in DOMAIN located
    /\ \E n \in 2..Len(located[task.range]) :
          /\ located[task.range][n] = task.patch.input.edits
          /\ OneMoreUpdate(located[task.range][n - 1], located[task.range][n])

\* C5: after a revision R1 and then a revision R2, which is R1 followed by
\* one more Update of the same file, have been located, the branch that
\* create_branch_for_patch makes has the edit of R1 and the added edit
\* applied, each quoted line replaced by its new text, and the rest of the
\* file as it is.
C5_BothEditsApplied ==
    \A call \in DOMAIN branch_tasks :
        LET task == branch_tasks[call]
        IN  (task.status = "ok" /\ LocatedAfterShorterRevision(task)) =>
              /\ task.edit_groups # <<>>
              /\ \A i \in DOMAIN task.edit_groups :
                    buffers[task.edit_groups[i].buffer] =
                        WithUpdates(task.edit_groups[i].base, task.patch.input.edits)

\* The hunks of the diff between the content a buffer of a located patch was
\* located in and the text the file had when it was branched
HunksOf(patch_buffer, base) == Diff(patch_buffer.content, base)

\* Whether a hunk and a range of the located content share a byte, or the
\* hunk is an insertion strictly inside the range
Intersects(hunk, range) ==
    hunk.range.start < range.end /\ hunk.range.end > range.start

\* The sum of new-text length minus old-range length over the hunks that
\* end at or before offset
RECURSIVE DeltaBefore(_, _)
DeltaBefore(hunks, offset) ==
    IF hunks = <<>>
    THEN 0
    ELSE (IF Head(hunks).range.end <= offset
          THEN Len(Head(hunks).new_text) - RangeLen(Head(hunks).range)
          ELSE 0) + DeltaBefore(Tail(hunks), offset)

\* The ranges, as offsets of the branched text, of the edits a call applied
\* to a file
AppliedRanges(done) ==
    UNION {{[start |-> done.groups[g].edits[e].range.start.offset,
             end |-> done.groups[g].edits[e].range.end.offset,
             new_text |-> done.groups[g].edits[e].new_text] :
               e \in DOMAIN done.groups[g].edits} : g \in DOMAIN done.groups}

\* C6: a located edit whose range intersects no hunk of the diff is shifted,
\* at both ends, by the summed length change of the hunks before it and by
\* nothing for the hunks after it, so that it selects in the live text the
\* text it selected in the content it was located in.
C6_DriftShiftsByHunksBefore ==
    \A call \in DOMAIN branch_tasks :
        LET task == branch_tasks[call]
        IN  \A i \in DOMAIN task.edit_groups :
                LET done == task.edit_groups[i]
                    patch_buffer == PatchBufferFor(task.patch, done.path)
                    hunks == HunksOf(patch_buffer, done.base)
                IN  \A j \in DOMAIN patch_buffer.edits :
                        LET edit == patch_buffer.edits[j]
                            delta == DeltaBefore(hunks, edit.range.start)
                        IN  (\A h \in DOMAIN hunks : ~Intersects(hunks[h], edit.range)) =>
                              /\ [start |-> edit.range.start + delta,
                                  end |-> edit.range.end + delta,
                                  new_text |-> edit.new_text] \in AppliedRanges(done)
                              /\ Slice(done.base, edit.range.start + delta,
                                       edit.range.end + delta)
                                   = Slice(patch_buffer.content, edit.range.start,
                                           edit.range.end)

\* The paths of the edits of a revision
PathsOf(edits) == {edits[i].path : i \in DOMAIN edits}

\* The paths of a located patch's revision that have no buffer in the patch
UnresolvedPaths(patch) ==
    {path \in PathsOf(patch.input.edits) : BufferIx(patch.buffers, path) = 0}

\* C7: when a patch has edits on two paths and one of the paths cannot be
\* opened, create_branch_for_patch gives a result that holds the edit groups
\* of the other file and whose error list has exactly one error.
C7_OneErrorForUnresolvedPath ==
    \A call \in DOMAIN branch_tasks :
        LET task == branch_tasks[call]
        IN  (/\ task.status \in {"ok", "error", "panicked"}
             /\ Cardinality(PathsOf(task.patch.input.edits)) = 2
             /\ Cardinality(UnresolvedPaths(task.patch)) = 1
             /\ \A path \in UnresolvedPaths(task.patch) : fs[path] = "error") =>
              /\ task.status = "ok"
              /\ Len(task.edit_groups) = 1
              /\ Len(task.errors) = 1

\* C8: create_branch_for_patch for a key with an entry never fails as a
\* whole: when a file fails to open, the edits of the other files are still
\* applied and a result is returned; not-found for an unknown key is the
\* only failure.
C8_MaterializeNeverFailsAsAWhole ==
    \A call \in DOMAIN branch_tasks :
        /\ branch_tasks[call].status \in {"running", "ok", "not_found"}
        /\ branch_tasks[call].status = "not_found" =>
               branch_tasks[call].patch = None

\* The located edits of outputs that came from the input edit at ix of a path
LocatedFrom(outputs, path, ix) ==
    IF BufferIx(outputs, path) = 0
    THEN {}
    ELSE LET edits == outputs[BufferIx(outputs, path)].edits
         IN  {edits[i] : i \in {j \in DOMAIN edits : edits[j].input_ix = ix}}

\* The previous revision of a task has an equal edit at position ix, and the
\* previous located patch holds the edit located from that position
SameEditLocatedBefore(task, ix) ==
    LET old == task.old_located_patch
    IN  /\ ix <= Len(old.input.edits)
        /\ old.input.edits[ix] = task.patch.edits[ix]
        /\ LocatedFrom(old.buffers, task.patch.edits[ix].path, ix) # {}

\* The previous revision has no equal edit before position ix
FirstEqualEdit(task, ix) ==
    \A j \in 1..(ix - 1) : task.old_located_patch.input.edits[j] # task.patch.edits[ix]

\* The step is an iteration of the locate task id
Iterates(id) ==
    /\ id \in DOMAIN locate_tasks
    /\ spawned' = spawned
    /\ locate_tasks[id].input_edit_ix <= Len(locate_tasks[id].patch.edits)
    /\ \/ id \notin DOMAIN locate_tasks'
       \/ locate_tasks'[id].input_edit_ix > locate_tasks[id].input_edit_ix

\* The iteration ran no alignment, and the edit it located has the range and
\* the new text of the edit the previous located patch holds for the position
ReusedVerbatim(id) ==
    LET task == locate_tasks[id]
        ix == task.input_edit_ix
        path == task.patch.edits[ix].path
    IN  /\ ~aligned'
        /\ \E new \in LocatedFrom(IF id \in DOMAIN locate_tasks'
                                  THEN locate_tasks'[id].new_outputs
                                  ELSE entries'[task.range].patch.buffers, path, ix) :
              \E old \in LocatedFrom(task.old_located_patch.buffers, path, ix) :
                  new.range = old.range /\ new.new_text = old.new_text

Settled ==
    /\ DOMAIN entries = DOMAIN submitted
    /\ \A range \in DOMAIN entries :
          /\ entries[range].locate_task = None
          /\ entries[range].patch.input.edits = submitted[range]

KeyView(map, tasks, range) ==
    [entry |-> IF range \in DOMAIN map THEN Some(map[range]) ELSE None,
     jobs |-> {<<id, tasks[id]>> : id \in {i \in DOMAIN tasks : tasks[i].range = range}}]

\* The keys other than range are, after the step, as they were before it
OtherKeysUnchanged(range) ==
    \A other \in Keys \ {range} :
        KeyView(entries', locate_tasks', other) = KeyView(entries, locate_tasks, other)

\* A step that is insert(range, ..), an iteration of a locate task of range,
\* or its commit, leaves every other key alone
TouchesOwnKeyOnly ==
    /\ spawned' # spawned => OtherKeysUnchanged(locate_tasks'[spawned'].range)
    /\ \A id \in DOMAIN locate_tasks :
          Iterates(id) => OtherKeysUnchanged(locate_tasks[id].range)

\* Every locate task alive can take its next step, whatever the other tasks do
EveryJobCanStep == \A id \in DOMAIN locate_tasks : ENABLED LocateStep(id)

\* C11: insert for a key, the locate task it starts and that task's commit
\* change the entry and the task of that key only; the cached patch and the
\* job handle of every other key stay as they are, and a locate task can
\* always take its next step, whatever tasks of other keys are doing.
C11_KeysAreIndependent == [][TouchesOwnKeyOnly]_vars /\ []EveryJobCanStep

\* The task of one key has committed while the task of another key, started
\* before that commit, has not taken a step
C11_Witness ==
    \E id \in DOMAIN locate_tasks :
        \E range \in DOMAIN entries :
            /\ worktree
            /\ range # locate_tasks[id].range
            /\ entries[range].locate_task = None
            /\ entries[range].patch.buffers # <<>>
            /\ locate_tasks[id].input_edit_ix = 1
            /\ entries[locate_tasks[id].range].locate_task = Some(id)

\* Whether the texts of parts occur in text one after the other, in order
RECURSIVE OccurInOrder(_, _)
OccurInOrder(text, parts) ==
    IF parts = <<>>
    THEN TRUE
    ELSE \E o \in 0..(Len(text) - Len(Head(parts))) :
            /\ Slice(text, o, o + Len(Head(parts))) = Head(parts)
            /\ OccurInOrder(Slice(text, o + Len(Head(parts)), Len(text)), Tail(parts))

\* Whether a revision is an InsertBefore, an Update and an InsertAfter of one
\* file that quote the same text, so that the insertion before and the update
\* start at the same offset and the insertion after is at the update's end
BeforeUpdateAfter(edits) ==
    /\ Len(edits) = 3
    /\ edits[1].kind.op = "InsertBefore"
    /\ edits[2].kind.op = "Update"
    /\ edits[3].kind.op = "InsertAfter"
    /\ \A i \in 1..3 : edits[i].path = edits[1].path
                       /\ edits[i].kind.old_text = edits[1].kind.old_text

\* Whether the patch a call captured is the located patch of its revision
LocatedPatchOfRevision(task) ==
    /\ task.patch # None
    /\ task.patch.buffers # <<>>
    /\ task.range \in DOMAIN located
    /\ \E n \in DOMAIN located[task.range] :
          located[task.range][n] = task.patch.input.edits

\* C12: when a revision of an InsertBefore and an Update that start at the
\* same offset and an InsertAfter at the end of the Update's range has been
\* located, the branch create_branch_for_patch makes holds the text inserted
\* before, then the updated text, then the text inserted after: no edit is
\* lost because another edit of the file has the same start.
C12_SameStartEditsAllApplied ==
    \A call \in DOMAIN branch_tasks :
        LET task == branch_tasks[call]
        IN  (/\ task.status = "ok"
             /\ LocatedPatchOfRevision(task)
             /\ BeforeUpdateAfter(task.patch.input.edits)) =>
              /\ Len(task.edit_groups) = 1
              /\ OccurInOrder(buffers[task.edit_groups[1].buffer],
                              <<task.patch.input.edits[1].kind.new_text,
                                task.patch.input.edits[2].kind.new_text,
                                task.patch.input.edits[3].kind.new_text>>)

\* Whether a revision is two or more Updates of one file
SeveralUpdates(edits) ==
    /\ Len(edits) >= 2
    /\ \A i \in DOMAIN edits :
          edits[i].kind.op = "Update" /\ edits[i].path = edits[1].path

\* Whether the texts the edits quote are whole lines of text, each on a line
\* of its own
OnDisjointLines(edits, text) ==
    /\ \A i \in DOMAIN edits : LinesEqualTo(text, edits[i].kind.old_text) # {}
    /\ \A i, j \in DOMAIN edits :
          i # j => LinesEqualTo(text, edits[i].kind.old_text)
                     \cap LinesEqualTo(text, edits[j].kind.old_text) = {}

\* C13: when a revision of several Updates of one file, whose quoted texts
\* are on pairwise disjoint lines of the file, has been located, the result
\* of create_branch_for_patch has exactly one branch, and its text is the
\* text the live file had when it was branched with each quoted line replaced
\* by the new text of its edit and everything else as it is.
C13_DisjointUpdatesAllApplied ==
    \A call \in DOMAIN branch_tasks :
        LET task == branch_tasks[call]
        IN  (/\ task.status = "ok"
             /\ LocatedPatchOfRevision(task)
             /\ SeveralUpdates(task.patch.input.edits)) =>
              /\ Len(task.edit_groups) = 1
              /\ OnDisjointLines(task.patch.input.edits, task.edit_groups[1].base) =>
                    buffers[task.edit_groups[1].buffer] =
                        WithUpdates(task.edit_groups[1].base, task.patch.input.edits)

(***************************************************************************)
(* resolve_location run by itself, on every content and excerpt of small   *)
(* sets                                                                    *)
(***************************************************************************)

\* The most lines a content has
MaxLines == 2

\* The lines the contents are made of
ResolverLines ==
    {<<>>, <<"a", "b">>, <<"a", " ", "b">>, <<"a", " ", " ", " ", "b">>,
     <<"a", "x", "b">>, <<" ", "a">>}

\* The contents of n lines
RECURSIVE ContentsOfLines(_)
ContentsOfLines(n) ==
    IF n = 1
    THEN ResolverLines
    ELSE {content \o <<NL>> \o line :
             content \in ContentsOfLines(n - 1), line \in ResolverLines}

ResolverBuffers == UNION {ContentsOfLines(n) : n \in 1..MaxLines}

\* The excerpts searched for
ResolverQueries ==
    {<<>>, <<"a">>, <<"x">>, <<" ">>, <<"a", "b">>, <<"a", " ", "b">>,
     <<"a", NL, "b">>, <<"b", NL, "a">>}

\* The store and its project when a function is run by itself
StoreIdle ==
    /\ entries = <<>>
    /\ locate_tasks = <<>>
    /\ spawned = 0
    /\ aligned = FALSE
    /\ submitted = <<>>
    /\ located = <<>>
    /\ branch_tasks = <<>>
    /\ buffers = [id \in {LiveBuffer(path) : path \in Paths} |-> InitialText(id[2])]
    /\ fs = [path \in Paths |-> "ok"]
    /\ worktree = TRUE
    /\ env_steps = 0

ResolverInit ==
    /\ StoreIdle
    /\ \E buffer \in ResolverBuffers : \E search_query \in ResolverQueries :
          fn_call = [fn |-> "resolve_location", buffer |-> buffer,
                     search_query |-> search_query, matrix |-> None, range |-> None]

\* AssistantEditKind::resolve_location(buffer, search_query)
ResolveLocation ==
    /\ fn_call.range = None
    /\ fn_call' = [fn_call EXCEPT
                     !.matrix = Some(SearchMatrix(fn_call.buffer, fn_call.search_query)),
                     !.range = Some(resolve_location(fn_call.buffer, fn_call.search_query))]
    /\ UNCHANGED store_vars

ResolverNext == ResolveLocation

ResolverSpec == ResolverInit /\ [][ResolverNext]_vars

\* The range resolve_location gave
Resolved == fn_call.range[1]

RECURSIVE StripWhitespace(_)
StripWhitespace(text) ==
    IF text = <<>>
    THEN <<>>
    ELSE IF IsWhitespace(Head(text))
         THEN StripWhitespace(Tail(text))
         ELSE <<Head(text)>> \o StripWhitespace(Tail(text))

\* The substrings of B, from a byte that is not whitespace to one that is
\* not, that differ from Q by inserted or deleted whitespace bytes only
WhitespaceOccurrences(B, Q) ==
    {r \in {Range(s, e) : s \in 0..Len(B), e \in 0..Len(B)} :
        /\ r.start < r.end
        /\ ~IsWhitespace(B[r.start + 1])
        /\ ~IsWhitespace(B[r.end])
        /\ StripWhitespace(Slice(B, r.start, r.end)) = StripWhitespace(Q)}

\* C15: when the content has a substring that differs from the excerpt by
\* inserted or deleted whitespace bytes only, the range resolve_location
\* gives covers such an occurrence.
C15_FindsWhitespaceVariant ==
    fn_call.range # None =>
        LET found == WhitespaceOccurrences(fn_call.buffer, fn_call.search_query)
        IN  found # {} =>
              \E r \in found : Resolved.start <= r.start /\ r.end <= Resolved.end

(***************************************************************************)
(* group_edits run by itself, on every pair of edits of a snapshot of      *)
(* one-byte lines                                                          *)
(***************************************************************************)

\* The number of lines of the snapshot
GroupRows == 13

\* The snapshot: GroupRows lines "x"; row r is [2r, 2r + 1)
GroupSnapshot == [i \in 1..(2 * GroupRows - 1) |-> IF i % 2 = 1 THEN "x" ELSE NL]

\* The anchor ranges an edit of row r can have: the ranges
\* AssistantEditKind::resolve gives an Update of one or of two lines, an
\* InsertBefore and an InsertAfter, and the range create_branch_for_patch
\* gives a located edit of no width
GroupRanges ==
    UNION {{[start |-> anchor_before(2 * r), end |-> anchor_after(2 * r + 1)],
            [start |-> anchor_before(2 * r),
             end |-> anchor_after(Min2(2 * r + 3, 2 * GroupRows - 1))],
            [start |-> anchor_before(2 * r), end |-> anchor_before(2 * r)],
            [start |-> anchor_after(2 * r + 1), end |-> anchor_after(2 * r + 1)],
            [start |-> anchor_before(2 * r), end |-> anchor_after(2 * r)]} :
              r \in 0..(GroupRows - 1)}

\* The descriptions an edit can have
GroupDescriptions(name) == {None, Some(<<name>>)}

GroupInit ==
    /\ StoreIdle
    /\ \E r1 \in GroupRanges : \E r2 \in GroupRanges :
          \E d1 \in GroupDescriptions("p") : \E d2 \in GroupDescriptions("q") :
              fn_call = [fn |-> "group_edits",
                         edits |-> <<ResolvedEdit(r1, <<"P">>, d1),
                                     ResolvedEdit(r2, <<"Q">>, d2)>>,
                         snapshot |-> GroupSnapshot,
                         edit_groups |-> None]

\* AssistantPatch::group_edits(edits, snapshot)
GroupEdits ==
    /\ fn_call.edit_groups = None
    /\ fn_call' = [fn_call EXCEPT
                     !.edit_groups = Some(group_edits(fn_call.edits, fn_call.snapshot))]
    /\ UNCHANGED store_vars

GroupNext == GroupEdits

GroupSpec == GroupInit /\ [][GroupNext]_vars

\* The groups group_edits gave, and their edits in order
Grouped == fn_call.edit_groups[1]

RECURSIVE EditsOfGroups(_)
EditsOfGroups(groups) ==
    IF groups = <<>> THEN <<>> ELSE Head(groups).edits \o EditsOfGroups(Tail(groups))

\* Whether range a is before range b in the order of the sort: by start, and
\* for equal starts the one that ends later first
SortsBefore(a, b) ==
    \/ AnchorLt(a.start, b.start)
    \/ a.start = b.start /\ AnchorLt(b.end, a.end)

\* The two edits given to group_edits in sort order: <<A, B>>
InSortOrder ==
    IF SortsBefore(fn_call.edits[2].range, fn_call.edits[1].range)
    THEN <<fn_call.edits[2], fn_call.edits[1]>>
    ELSE fn_call.edits

\* Whether range a contains range b
ContainsRange(a, b) == ~AnchorLt(b.start, a.start) /\ ~AnchorLt(a.end, b.end)

\* Whether b has no width and starts where a starts
ZeroWidthAtStart(a, b) ==
    b.start.offset = b.end.offset /\ b.start.offset = a.start.offset

\* C16: when the range of an edit A contains the range of the edit B that
\* follows it in sort order, group_edits gives one edit for the two; when B
\* has no width and starts where A starts, its text is B's text, a line
\* break and A's text, and otherwise it has A's range and A's text.
C16_ContainedEditIsMerged ==
    fn_call.edit_groups # None =>
        LET A == InSortOrder[1]
            B == InSortOrder[2]
            merged == EditsOfGroups(Grouped)
        IN  ContainsRange(A.range, B.range) =>
              /\ Len(merged) = 1
              /\ IF ZeroWidthAtStart(A.range, B.range)
                 THEN merged[1].new_text = B.new_text \o <<NL>> \o A.new_text
                 ELSE merged[1].range = A.range /\ merged[1].new_text = A.new_text

\* An insertion at the start of an update of two lines was merged into it
C16_Witness ==
    /\ fn_call.edit_groups # None
    /\ RangeLen([start |-> InSortOrder[1].range.start.offset,
                 end |-> InSortOrder[1].range.end.offset]) = 3
    /\ ZeroWidthAtStart(InSortOrder[1].range, InSortOrder[2].range)
    /\ ContainsRange(InSortOrder[1].range, InSortOrder[2].range)
    /\ Len(EditsOfGroups(Grouped)) = 1
    /\ Len(EditsOfGroups(Grouped)[1].new_text) = 3

\* The rows from the end of the first edit group_edits kept to the start of
\* the second
RowsApart ==
    LET kept == EditsOfGroups(Grouped)
    IN  RowOf(fn_call.snapshot, kept[2].range.start.offset)
          - RowOf(fn_call.snapshot, kept[1].range.end.offset)

\* C17: two edits that group_edits keeps one after the other are in one
\* group when the later one starts at most 10 rows after the row the earlier
\* one ends on, and in two groups when it starts 11 rows or more after it.
C17_GroupedWithinTenRows ==
    (fn_call.edit_groups # None /\ Len(EditsOfGroups(Grouped)) = 2) =>
        /\ RowsApart <= 10 => Len(Grouped) = 1
        /\ RowsApart >= 11 => Len(Grouped) = 2

\* Two edits 11 rows apart are in two groups, whose context ranges end and
\* start on neighbouring rows
C17_Witness ==
    /\ fn_call.edit_groups # None
    /\ Len(EditsOfGroups(Grouped)) = 2
    /\ RowsApart = 11
    /\ Len(Grouped) = 2
    /\ RowOf(fn_call.snapshot, Grouped[2].context_range.start.offset)
         = RowOf(fn_call.snapshot, Grouped[1].context_range.end.offset) + 1

\* C18: for the empty excerpt resolve_location gives an empty range, start
\* equal to end, at column 0 of a line of the content.
C18_EmptyQueryGivesEmptyRange ==
    (fn_call.range # None /\ fn_call.search_query = <<>>) =>
        /\ Resolved.start = Resolved.end
        /\ (Resolved.start = 0 \/ fn_call.buffer[Resolved.start] = NL)

(***************************************************************************)
(* AssistantEdit::new run by itself, on every choice of raw fields         *)
(***************************************************************************)

\* The raw fields a proposal can carry
RawPaths == {None, Some("a.rs")}

RawOperations ==
    {None, Some("update"), Some("insert_before"), Some("insert_after"),
     Some("delete"), Some("create"), Some("rename"), Some("Update")}

RawOldTexts == {None, Some(<<"1">>)}

RawNewTexts == {None, Some(<<"2">>)}

RawDescriptions == {None, Some(<<"d">>)}

EditInit ==
    /\ StoreIdle
    /\ \E path \in RawPaths : \E operation \in RawOperations :
          \E old_text \in RawOldTexts : \E new_text \in RawNewTexts :
              \E description \in RawDescriptions :
                  fn_call = [fn |-> "AssistantEdit::new", path |-> path,
                             operation |-> operation, old_text |-> old_text,
                             new_text |-> new_text, description |-> description,
                             result |-> None]

\* AssistantEdit::new(path, operation, old_text, new_text, description)
NewEdit ==
    /\ fn_call.result = None
    /\ fn_call' = [fn_call EXCEPT
                     !.result = Some(AssistantEditNew(fn_call.path, fn_call.operation,
                                                      fn_call.old_text, fn_call.new_text,
                                                      fn_call.description))]
    /\ UNCHANGED store_vars

EditNext == NewEdit

EditSpec == EditInit /\ [][EditNext]_vars

\* The kind an operation names
KindNamed(operation) ==
    CASE operation = "update" -> "Update"
      [] operation = "insert_before" -> "InsertBefore"
      [] operation = "insert_after" -> "InsertAfter"
      [] operation = "delete" -> "Delete"
      [] operation = "create" -> "Create"

\* Whether the raw fields of the call lack something the edit needs
Malformed ==
    \/ fn_call.path = None
    \/ fn_call.operation = None
    \/ fn_call.operation[1]
         \notin {"update", "insert_before", "insert_after", "delete", "create"}
    \/ /\ fn_call.operation[1] \in {"update", "insert_before", "insert_after", "delete"}
       /\ fn_call.old_text = None
    \/ /\ fn_call.operation[1] \in {"update", "insert_before", "insert_after", "create"}
       /\ fn_call.new_text = None

\* C19: AssistantEdit::new fails, and the store stays as it is, exactly when
\* the path is missing, the operation is missing or is none of update,
\* insert_before, insert_after, delete and create, the old text is missing
\* for update, insert_before, insert_after or delete, or the new text is
\* missing for update, insert_before, insert_after or create; in every other
\* case it gives the edit of the kind named, with the path and with the
\* texts and the description that kind has as they were given.
C19_MalformedEditIsRejected ==
    fn_call.result # None =>
        LET result == fn_call.result[1]
        IN  /\ ~result.ok <=> Malformed
            /\ entries = <<>> /\ locate_tasks = <<>>
            /\ result.ok =>
                 LET kind == result.edit.kind
                 IN  /\ result.edit.path = fn_call.path[1]
                     /\ kind.op = KindNamed(fn_call.operation[1])
                     /\ kind.op # "Create" => kind.old_text = fn_call.old_text[1]
                     /\ kind.op # "Delete" => kind.new_text = fn_call.new_text[1]
                     /\ kind.op # "Delete" => kind.description = fn_call.description

\* A delete without an old text was rejected although it has a path, a new
\* text and a description
C19_Witness ==
    /\ fn_call.result # None
    /\ ~fn_call.result[1].ok
    /\ fn_call.operation = Some("delete")
    /\ fn_call.path # None
    /\ fn_call.old_text = None
    /\ fn_call.new_text # None

\* The costs of the three ways into the cell (row, col) of the matrix of the
\* call, row and col from 1: dropping the query byte of the row (a vertical
\* move), skipping the content byte of the column (a horizontal move), and
\* the diagonal
CandidateCosts(row, col) ==
    LET matrix == fn_call.matrix[1]
        query_byte == fn_call.search_query[row]
        buffer_byte == fn_call.buffer[col]
    IN  [vertical |-> MatrixGet(matrix, row - 1, col).cost + deletion_cost(query_byte),
         horizontal |-> MatrixGet(matrix, row, col - 1).cost + insertion_cost(buffer_byte),
         diagonal |-> MatrixGet(matrix, row - 1, col - 1).cost
                        + (IF query_byte = buffer_byte THEN 0
                           ELSE deletion_cost(query_byte) + insertion_cost(buffer_byte))]

LeastCost(costs) == Min2(Min2(costs.vertical, costs.horizontal), costs.diagonal)

\* Whether two or three of the costs are the least
Tied(costs) ==
    Cardinality({way \in {"vertical", "horizontal", "diagonal"} :
                    costs[way] = LeastCost(costs)}) >= 2

\* The cells of the matrix of the call that have three neighbours
InnerCells == (1..Len(fn_call.search_query)) \X (1..Len(fn_call.buffer))

\* C20, as the specification states it: when two or three of the candidate
\* costs of a cell are equal and least, the direction recorded is the
\* horizontal move (skip a content byte) before the vertical move (drop a
\* query byte) before the diagonal.
C20_TieSkipBeforeDrop ==
    fn_call.matrix # None =>
        \A cell \in InnerCells :
            LET costs == CandidateCosts(cell[1], cell[2])
            IN  Tied(costs) =>
                  MatrixGet(fn_call.matrix[1], cell[1], cell[2]).direction =
                      IF costs.horizontal = LeastCost(costs) THEN "Left"
                      ELSE IF costs.vertical = LeastCost(costs) THEN "Up"
                      ELSE "Diagonal"

\* C20, corrected: the direction recorded is the vertical move (drop a query
\* byte) before the horizontal move (skip a content byte) before the
\* diagonal.
C20_TieDropBeforeSkip ==
    fn_call.matrix # None =>
        \A cell \in InnerCells :
            LET costs == CandidateCosts(cell[1], cell[2])
            IN  Tied(costs) =>
                  MatrixGet(fn_call.matrix[1], cell[1], cell[2]).direction =
                      IF costs.vertical = LeastCost(costs) THEN "Up"
                      ELSE IF costs.horizontal = LeastCost(costs) THEN "Left"
                      ELSE "Diagonal"

\* A cell whose three costs are equal has the vertical move recorded, and
\* another cell, where only the horizontal move and the diagonal are tied,
\* has the horizontal move
C20_Witness ==
    /\ fn_call.matrix # None
    /\ \E cell \in InnerCells :
          LET costs == CandidateCosts(cell[1], cell[2])
          IN  /\ costs.vertical = costs.horizontal
              /\ costs.horizontal = costs.diagonal
              /\ MatrixGet(fn_call.matrix[1], cell[1], cell[2]).direction = "Up"
    /\ \E cell \in InnerCells :
          LET costs == CandidateCosts(cell[1], cell[2])
          IN  /\ costs.horizontal = costs.diagonal
              /\ costs.horizontal < costs.vertical
              /\ MatrixGet(fn_call.matrix[1], cell[1], cell[2]).direction = "Left"

(***************************************************************************)
(* group_edits run by itself on lists of up to three edits, on a snapshot  *)
(* long enough for three groups                                            *)
(***************************************************************************)

\* The number of lines of the snapshot
ListRows == 25

\* The snapshot: ListRows lines "x"; row r is [2r, 2r + 1)
ListSnapshot == [i \in 1..(2 * ListRows - 1) |-> IF i % 2 = 1 THEN "x" ELSE NL]

\* The rows the edits of a list start on: the first two, the two in the
\* middle and the last
ListEditRows == {0, 1, (ListRows - 1) \div 2, (ListRows - 1) \div 2 + 1, ListRows - 1}

\* The ranges create_branch_for_patch gives the edits located on those rows:
\* one line, two lines, and no width
ListRanges ==
    UNION {{[start |-> anchor_before(2 * r), end |-> anchor_after(2 * r + 1)],
            [start |-> anchor_before(2 * r),
             end |-> anchor_after(Min2(2 * r + 3, 2 * ListRows - 1))],
            [start |-> anchor_before(2 * r), end |-> anchor_after(2 * r)]} :
              r \in ListEditRows}

\* The lists of one, two and three edits
EditLists ==
    LET edit(range) == ResolvedEdit(range, <<"P">>, None)
    IN  {<<edit(r1)>> : r1 \in ListRanges}
          \cup {<<edit(r1), edit(r2)>> : r1 \in ListRanges, r2 \in ListRanges}
          \cup {<<edit(r1), edit(r2), edit(r3)>> :
                   r1 \in ListRanges, r2 \in ListRanges, r3 \in ListRanges}

GroupListInit ==
    /\ StoreIdle
    /\ \E edits \in EditLists :
          fn_call = [fn |-> "group_edits", edits |-> edits,
                     snapshot |-> ListSnapshot, edit_groups |-> None]

GroupListSpec == GroupListInit /\ [][GroupNext]_vars

\* C21: the edits group_edits keeps, taken in the order of the groups, are
\* sorted by start, and none overlaps the next: each ends at or before the
\* start of the edit after it.
C21_KeptEditsDoNotOverlap ==
    fn_call.edit_groups # None =>
        LET kept == EditsOfGroups(Grouped)
        IN  \A i \in 1..(Len(kept) - 1) :
                /\ kept[i].range.start.offset <= kept[i + 1].range.start.offset
                /\ kept[i].range.end.offset <= kept[i + 1].range.start.offset

\* C22: the context ranges of the groups group_edits returns are in ascending
\* order and apart: each group's context range starts after the one before
\* it, and ends strictly before the next one starts.
C22_ContextRangesAscendAndAreApart ==
    fn_call.edit_groups # None =>
        \A i \in 1..(Len(Grouped) - 1) :
            /\ Grouped[i].context_range.start.offset
                 < Grouped[i + 1].context_range.start.offset
            /\ Grouped[i].context_range.end.offset
                 < Grouped[i + 1].context_range.start.offset

\* Three edits given out of order end in two groups, one of them holding two
\* edits whose context ranges were joined
C22_Witness ==
    /\ fn_call.edit_groups # None
    /\ Len(fn_call.edits) = 3
    /\ fn_call.edits[3].range.start.offset < fn_call.edits[1].range.start.offset
    /\ Len(Grouped) = 2
    /\ \E i \in 1..2 : Len(Grouped[i].edits) = 2

(***************************************************************************)
(* The drift adjuster run by itself: the loops of create_branch_for_patch  *)
(* over diff.edits and over the edits left, on the located edits of one    *)
(* file and the hunks of a diff of its located content                     *)
(***************************************************************************)

\* The length of the located content
DriftLen == 4

\* The ranges of the located content
DriftRanges == {r \in [start : 0..DriftLen, end : 0..DriftLen] : r.start <= r.end}

\* patch_buffer.edits: one or two located edits, by strictly increasing start
DriftEdits ==
    LET edit(range, ix) == LocatedEdit(range, <<"P">>, None, ix)
    IN  {<<edit(r1, 1)>> : r1 \in DriftRanges}
          \cup {<<edit(pair[1], 1), edit(pair[2], 2)>> :
                   pair \in {p \in DriftRanges \X DriftRanges :
                               p[1].start < p[2].start}}

\* The hunks of a diff: a range of the located content and the text that
\* stands in its place in the live content; no hunk changes nothing
DriftHunks ==
    {h \in [range : DriftRanges, new_text : {<<>>, <<"n", "n">>}] :
        RangeLen(h.range) > 0 \/ h.new_text # <<>>}

\* diff.edits: no hunk, or one or two hunks in order and apart
DriftDiffs ==
    {<<>>}
      \cup {<<h1>> : h1 \in DriftHunks}
      \cup {<<pair[1], pair[2]>> :
               pair \in {p \in DriftHunks \X DriftHunks :
                           p[1].range.end < p[2].range.start}}

DriftInit ==
    /\ StoreIdle
    /\ \E edits \in DriftEdits, diff_edits \in DriftDiffs :
          fn_call = [fn |-> "adjust_edits", edits |-> edits,
                     diff_edits |-> diff_edits, adjusted |-> None]

AdjustPatchEdits ==
    /\ fn_call.adjusted = None
    /\ fn_call' = [fn_call EXCEPT
                     !.adjusted = Some(adjust_edits(fn_call.edits, fn_call.diff_edits))]
    /\ UNCHANGED store_vars

DriftNext == AdjustPatchEdits

DriftSpec == DriftInit /\ [][DriftNext]_vars

\* The edits after the loops
Adjusted == fn_call.adjusted[1]

\* The summed length change of the hunks before hunk k
RECURSIVE DeltaOfHunksBefore(_, _)
DeltaOfHunksBefore(hunks, k) ==
    IF k <= 1
    THEN 0
    ELSE DeltaOfHunksBefore(hunks, k - 1)
           + Len(hunks[k - 1].new_text) - RangeLen(hunks[k - 1].range)

\* The span the new text of hunk k takes in the live content
LiveSpan(hunks, k) ==
    LET start == hunks[k].range.start + DeltaOfHunksBefore(hunks, k)
    IN  Range(start, start + Len(hunks[k].new_text))

\* C23: for every located edit and every hunk of the diff whose old range
\* intersects the edit's range, the adjusted range of the edit contains the
\* whole span the hunk's new text takes in the live content; also when an
\* edit intersects several hunks and when a hunk intersects several edits.
C23_AdjustedRangeContainsHunkText ==
    fn_call.adjusted # None =>
        \A i \in DOMAIN fn_call.edits, k \in DOMAIN fn_call.diff_edits :
            Intersects(fn_call.diff_edits[k], fn_call.edits[i].range) =>
                /\ Adjusted[i].range.start <= LiveSpan(fn_call.diff_edits, k).start
                /\ LiveSpan(fn_call.diff_edits, k).end <= Adjusted[i].range.end

\* The edits a list of located buffers holds for a path
EditsOfPath(outputs, path) ==
    IF BufferIx(outputs, path) = 0 THEN <<>> ELSE outputs[BufferIx(outputs, path)].edits

\* The located buffers of a task after the step: its own, or those of the
\* located patch it has put into the store
OutputsAfter(id) ==
    IF id \in DOMAIN locate_tasks'
    THEN locate_tasks'[id].new_outputs
    ELSE entries'[locate_tasks[id].range].patch.buffers

StartsIncrease(edits) ==
    \A i \in 1..(Len(edits) - 1) : edits[i].range.start < edits[i + 1].range.start

EveryBufferStartSorted ==
    /\ \A id \in DOMAIN locate_tasks :
          \A b \in DOMAIN locate_tasks[id].new_outputs :
              StartsIncrease(locate_tasks[id].new_outputs[b].edits)
    /\ \A range \in DOMAIN entries :
          \A b \in DOMAIN entries[range].patch.buffers :
              StartsIncrease(entries[range].patch.buffers[b].edits)

\* The edit the iteration located took the place of the edit with the same
\* start, or went in as one more edit when there was none
ReplacesAtSameStart(id) ==
    LET task == locate_tasks[id]
        ix == task.input_edit_ix
        path == task.patch.edits[ix].path
        before == EditsOfPath(task.new_outputs, path)
        after == EditsOfPath(OutputsAfter(id), path)
    IN  \A new \in LocatedFrom(OutputsAfter(id), path, ix) :
            IF \E i \in DOMAIN before : before[i].range.start = new.range.start
            THEN /\ Len(after) = Len(before)
                 /\ \A i \in DOMAIN before :
                       after[i] = IF before[i].range.start = new.range.start
                                  THEN new ELSE before[i]
            ELSE /\ Len(after) = Len(before) + 1
                 /\ {after[i] : i \in DOMAIN after}
                      = {before[i] : i \in DOMAIN before} \cup {new}

OpenFails(path) == ~worktree \/ fs[path] = "error"

\* The iteration of task id leaves its located buffers as they were
SkipsEdit(id) == OutputsAfter(id) = locate_tasks[id].new_outputs

\* The loop of task id goes on with the next edit, or was at its last edit
\* and the located patch is put into the store
GoesOnOrCommits(id) ==
    LET task == locate_tasks[id]
    IN  IF task.input_edit_ix < Len(task.patch.edits)
        THEN /\ id \in DOMAIN locate_tasks'
             /\ locate_tasks'[id].input_edit_ix = task.input_edit_ix + 1
        ELSE /\ id \notin DOMAIN locate_tasks'
             /\ entries'[task.range].locate_task = None
             /\ entries'[task.range].patch.input = task.patch
             /\ entries'[task.range].patch.buffers = OutputsAfter(id)

ContentOfPath(outputs, path) == outputs[BufferIx(outputs, path)].content

\* The located patch the store holds for the key of a running task: the
\* previous located result of that key
PreviousResult(id) == entries[locate_tasks[id].range].patch

\* Every file the task has after the step, and the previous result has too,
\* has the content of the previous result
KeepsPreviousSnapshots(id) ==
    \A b \in DOMAIN OutputsAfter(id) :
        LET path == OutputsAfter(id)[b].path
        IN  BufferIx(PreviousResult(id).buffers, path) # 0 =>
                OutputsAfter(id)[b].content
                  = ContentOfPath(PreviousResult(id).buffers, path)

\* The edit of a path of the previous result is located whether or not the
\* path can be opened now
LocatesWithoutOpening(id) ==
    LET task == locate_tasks[id]
        path == task.patch.edits[task.input_edit_ix].path
    IN  BufferIx(PreviousResult(id).buffers, path) # 0 =>
            LocatedFrom(OutputsAfter(id), path, task.input_edit_ix) # {}

\* A file the iteration adds, which the previous result does not have, has
\* the text of the live buffer
LoadsAbsentPath(id) ==
    LET task == locate_tasks[id]
        path == task.patch.edits[task.input_edit_ix].path
    IN  (/\ BufferIx(task.new_outputs, path) = 0
         /\ BufferIx(OutputsAfter(id), path) # 0
         /\ BufferIx(PreviousResult(id).buffers, path) = 0)
            => ContentOfPath(OutputsAfter(id), path) = buffers[LiveBuffer(path)]

\* C26: while a revision is located, a path the previous located result of
\* the key holds keeps the snapshot of that result and is not loaded again,
\* even when the live file has changed since; content is loaded from the
\* live buffer only for a path the previous result does not hold.
C26_PreviousSnapshotIsReused ==
    [][\A id \in DOMAIN locate_tasks :
          Iterates(id) =>
              /\ KeepsPreviousSnapshots(id)
              /\ LocatesWithoutOpening(id)
              /\ LoadsAbsentPath(id)]_vars

\* A task is locating the second revision of a key on the snapshot the
\* previous result holds for a.rs, which the live file no longer equals
C26_Witness ==
    \E id \in DOMAIN locate_tasks :
        LET task == locate_tasks[id]
        IN  /\ task.input_edit_ix = 2
            /\ Len(task.patch.edits) = 2
            /\ BufferIx(PreviousResult(id).buffers, "a.rs") # 0
            /\ BufferIx(task.new_outputs, "a.rs") # 0
            /\ ContentOfPath(task.new_outputs, "a.rs") = InitialText("a.rs")
            /\ buffers[LiveBuffer("a.rs")] # InitialText("a.rs")

(***************************************************************************)
(* AssistantEditKind::locate run by itself                                 *)
(***************************************************************************)

\* The new texts of the edits
LocateNewTexts == {<<>>, <<"n">>}

\* The kinds located: every variant, with every old text of the resolver's
\* queries
LocateKinds ==
    {Update("a.rs", old, new, None).kind : old \in ResolverQueries, new \in LocateNewTexts}
      \cup {InsertBefore("a.rs", old, new, None).kind :
               old \in ResolverQueries, new \in LocateNewTexts}
      \cup {InsertAfter("a.rs", old, new, None).kind :
               old \in ResolverQueries, new \in LocateNewTexts}
      \cup {Delete("a.rs", old).kind : old \in ResolverQueries}
      \cup {Create("a.rs", new, None).kind : new \in LocateNewTexts}

LocateInit ==
    /\ StoreIdle
    /\ \E kind \in LocateKinds, buffer \in ResolverBuffers :
          fn_call = [fn |-> "locate", kind |-> kind, input_ix |-> 1,
                     buffer |-> buffer, located_edit |-> None]

Locate ==
    /\ fn_call.located_edit = None
    /\ fn_call' = [fn_call EXCEPT
                     !.located_edit =
                         Some(locate(fn_call.kind, fn_call.input_ix, fn_call.buffer))]
    /\ UNCHANGED store_vars

LocateNext == Locate

LocateSpec == LocateInit /\ [][LocateNext]_vars

\* The edit locate gave
Located == fn_call.located_edit[1]

\* C27: with R the whole-line range the resolver returns for the old text,
\* an Update is located at R with its new text, a Delete at R with an empty
\* text, an InsertBefore at the empty range at the start of R with its new
\* text followed by a line break, and an InsertAfter at the empty range at
\* the end of R with a line break followed by its new text.
C27_LocatedEditOfEachKind ==
    (fn_call.located_edit # None /\ fn_call.kind.op # "Create") =>
        LET R == resolve_location(fn_call.buffer, fn_call.kind.old_text)
            new == fn_call.kind.new_text
            op == fn_call.kind.op
        IN  /\ op = "Update" => Located.range = R /\ Located.new_text = new
            /\ op = "Delete" => Located.range = R /\ Located.new_text = <<>>
            /\ op = "InsertBefore" =>
                   /\ Located.range = Range(R.start, R.start)
                   /\ Located.new_text = new \o <<NL>>
            /\ op = "InsertAfter" =>
                   /\ Located.range = Range(R.end, R.end)
                   /\ Located.new_text = <<NL>> \o new

\* An InsertAfter has been located after the second line of a content
C27_Witness ==
    /\ fn_call.located_edit # None
    /\ fn_call.kind.op = "InsertAfter"
    /\ fn_call.kind.new_text = <<"n">>
    /\ Located.range.start = Located.range.end
    /\ Located.range.start = Len(fn_call.buffer)
    /\ resolve_location(fn_call.buffer, fn_call.kind.old_text).start > 0

\* Whether a revision is a single Create
SingleCreate(edits) == Len(edits) = 1 /\ edits[1].kind.op = "Create"

\* C28: a Create edit is located without a search at the range of the whole
\* content, whatever the content of the file is, and after
\* create_branch_for_patch the whole text of the branch is the new text of
\* the edit.
C28_CreateReplacesWholeContent ==
    \A call \in DOMAIN branch_tasks :
        LET task == branch_tasks[call]
        IN  (/\ task.status = "ok"
             /\ SingleCreate(task.patch.input.edits)
             /\ task.edit_groups # <<>>) =>
              /\ Len(task.patch.buffers) = 1
              /\ Len(task.patch.buffers[1].edits) = 1
              /\ task.patch.buffers[1].edits[1].range
                   = Range(0, Len(task.patch.buffers[1].content))
              /\ Len(task.edit_groups) = 1
              /\ buffers[task.edit_groups[1].buffer]
                   = task.patch.input.edits[1].kind.new_text

\* The cost the last row of the matrix holds at a column
FinalRowCost(col) ==
    MatrixGet(fn_call.matrix[1], Len(fn_call.search_query), col).cost

\* The columns of the last row, column 0 included, whose cost is the least
LeastCostColumns ==
    {col \in 0..Len(fn_call.buffer) :
        \A other \in 0..Len(fn_call.buffer) : FinalRowCost(col) <= FinalRowCost(other)}

\* The column at which the path the recorded directions give from a cell
\* reaches row 0; at column 0 nothing of the content is left, and the path
\* goes up along the column
RECURSIVE PathStart(_, _)
PathStart(row, col) ==
    IF row = 0 \/ col = 0
    THEN col
    ELSE LET direction == MatrixGet(fn_call.matrix[1], row, col).direction
         IN  CASE direction = "Diagonal" -> PathStart(row - 1, col - 1)
               [] direction = "Up" -> PathStart(row - 1, col)
               [] direction = "Left" -> PathStart(row, col - 1)

\* C29: the end of the match, before it is widened to whole lines, is a
\* column whose cost in the last row is the least over all the columns
\* 0..|B| of that row, and its start is the column at which the path along
\* the recorded directions from that cell reaches row 0; the range returned
\* is that match widened to whole lines.
C29_EndIsLeastCostColumn ==
    fn_call.range # None =>
        \E end_offset \in LeastCostColumns :
            LET start_offset == PathStart(Len(fn_call.search_query), end_offset)
            IN  Resolved = Range(LineStart(fn_call.buffer, start_offset),
                                 LineEnd(fn_call.buffer, end_offset))

\* An excerpt of several bytes has been resolved to an inexact match: one
\* column only has the least cost, which is not 0, and it is on the first of
\* two lines
C29_Witness ==
    /\ fn_call.range # None
    /\ Len(fn_call.search_query) >= 2
    /\ Cardinality(LeastCostColumns) = 1
    /\ \A col \in LeastCostColumns :
          /\ FinalRowCost(col) > 0
          /\ LineEnd(fn_call.buffer, col) < Len(fn_call.buffer)
    /\ Resolved.end < Len(fn_call.buffer)

\* The cost of dropping a byte of the excerpt, and of skipping a byte of the
\* content
DropCost(byte) == IF IsWhitespace(byte) THEN 1 ELSE 10

SkipCost(byte) == IF IsWhitespace(byte) THEN 1 ELSE 3

RECURSIVE SumTo(_, _)
SumTo(costs, k) == IF k = 0 THEN 0 ELSE costs[k] + SumTo(costs, k - 1)

\* The alignments of an excerpt of n bytes against a text of m bytes: each
\* byte of the excerpt is dropped (0) or paired with a byte of the text, the
\* pairs in the order of both
Alignments(n, m) ==
    {f \in [1..n -> 0..m] :
        \A i, k \in 1..n : (i < k /\ f[i] # 0 /\ f[k] # 0) => f[i] < f[k]}

\* The total cost of an alignment of Q against B[s, e)
AlignmentCost(Q, B, s, e, f) ==
    LET of_query == [i \in 1..Len(Q) |->
                       IF f[i] = 0 THEN DropCost(Q[i])
                       ELSE IF Q[i] = B[s + f[i]] THEN 0
                       ELSE DropCost(Q[i]) + SkipCost(B[s + f[i]])]
        of_text == [k \in 1..(e - s) |->
                      IF \E i \in 1..Len(Q) : f[i] = k THEN 0 ELSE SkipCost(B[s + k])]
    IN  SumTo(of_query, Len(Q)) + SumTo(of_text, e - s)

\* The least total cost of aligning all of Q against a substring of B that
\* ends at column e
LeastAlignmentCost(Q, B, e) ==
    LET totals == UNION {{AlignmentCost(Q, B, s, e, f) : f \in Alignments(Len(Q), e - s)} :
                            s \in 0..e}
    IN  CHOOSE total \in totals : \A other \in totals : total <= other

\* C30: the cost the last row of the matrix holds at column j is the least
\* total cost of aligning all of Q against a substring of B that ends at j:
\* a match costs 0, dropping a byte of Q 10 (1 for whitespace), skipping a
\* byte of B 3 (1 for whitespace), a mismatch the sum of the two, and the
\* substring may begin at any column at no cost.
C30_FinalRowIsLeastAlignmentCost ==
    fn_call.range # None =>
        \A j \in 0..Len(fn_call.buffer) :
            FinalRowCost(j) = LeastAlignmentCost(fn_call.search_query, fn_call.buffer, j)

\* The excerpt "a b" has been aligned with the line "a   b": two spaces of
\* the line are skipped, at 1 each
C30_Witness ==
    /\ fn_call.range # None
    /\ fn_call.search_query = <<"a", " ", "b">>
    /\ fn_call.buffer = <<"a", " ", " ", " ", "b">>
    /\ FinalRowCost(5) = 2
    /\ FinalRowCost(0) = 21

\* The lines of a description, none when there is no description
LinesOfDescription(description) == IF description = None THEN <<>> ELSE description[1]

\* C31: when group_edits merges an edit B into the edit A that contains it,
\* the description of the merged edit holds the descriptions of both: B's,
\* a line break, A's when B has no width and starts where A starts, and A's,
\* a line break, B's otherwise; this for every combination of descriptions
\* present and absent, so that no description that was present is lost.
C31_MergeKeepsBothDescriptions ==
    fn_call.edit_groups # None =>
        LET A == InSortOrder[1]
            B == InSortOrder[2]
            merged == EditsOfGroups(Grouped)
        IN  (ContainsRange(A.range, B.range) /\ Len(merged) = 1) =>
              LinesOfDescription(merged[1].description)
                = IF ZeroWidthAtStart(A.range, B.range)
                  THEN LinesOfDescription(B.description) \o LinesOfDescription(A.description)
                  ELSE LinesOfDescription(A.description) \o LinesOfDescription(B.description)

\* C32: create_branch_for_patch leaves the located patch the store holds for
\* the key as it is: the located ranges, the replacement texts and the
\* content snapshots of every entry are the same after a step of the call,
\* through the drift adjustment, the grouping and the application of the
\* edits, as before it.
C32_MaterializeLeavesCachedPatch ==
    [][branch_tasks' # branch_tasks =>
          /\ DOMAIN entries' = DOMAIN entries
          /\ \A range \in DOMAIN entries :
                /\ entries'[range].patch.buffers = entries[range].patch.buffers
                /\ entries'[range].patch.input = entries[range].patch.input]_vars

\* A call has applied the located patch of its key to a file that changed
\* after it was located, and the store still holds that patch
C32_Witness ==
    \E call \in DOMAIN branch_tasks :
        LET task == branch_tasks[call]
        IN  /\ task.status = "ok"
            /\ Len(task.edit_groups) = 1
            /\ task.edit_groups[1].groups # <<>>
            /\ task.edit_groups[1].base # PatchBufferFor(task.patch, task.edit_groups[1].path).content
            /\ entries[task.range].patch = task.patch
            /\ Len(task.patch.input.edits) = 2

\* The buffers of a located patch are in the order of their paths, one for a
\* path, and none is without an edit
SortedByPathAndNonEmpty(outputs) ==
    /\ \A b \in 1..(Len(outputs) - 1) :
          PathRank(outputs[b].path) < PathRank(outputs[b + 1].path)
    /\ \A b \in DOMAIN outputs : outputs[b].edits # <<>>

\* C33: in every located patch locate_patch produces, in the store and in
\* the making, the located files are sorted by strictly increasing path, one
\* file for each distinct path whatever the order of the paths in the
\* revision, and every located file holds at least one edit.
C33_FilesSortedByPathAndNonEmpty ==
    /\ \A range \in DOMAIN entries :
          SortedByPathAndNonEmpty(entries[range].patch.buffers)
    /\ \A id \in DOMAIN locate_tasks :
          SortedByPathAndNonEmpty(locate_tasks[id].new_outputs)

\* The store holds the located patch of a revision that names b.rs before
\* a.rs: it has the file a.rs and then the file b.rs
C33_Witness ==
    \E range \in DOMAIN entries :
        LET patch == entries[range].patch
        IN  /\ entries[range].locate_task = None
            /\ Len(patch.input.edits) = 2
            /\ patch.input.edits[1].path = "b.rs"
            /\ patch.input.edits[2].path = "a.rs"
            /\ Len(patch.buffers) = 2
            /\ patch.buffers[1].path = "a.rs"

\* A call made for a key that has a revision submitted and no located patch
\* committed yet does not fail with not-found, and captures a patch without
\* located files
CallBeforeFirstCommit ==
    (/\ Len(branch_tasks') = Len(branch_tasks) + 1
     /\ branch_tasks'[Len(branch_tasks')].range \in DOMAIN submitted
     /\ branch_tasks'[Len(branch_tasks')].range \notin DOMAIN located) =>
        LET task == branch_tasks'[Len(branch_tasks')]
        IN  /\ task.status = "running"
            /\ task.patch # None
            /\ task.patch.buffers = <<>>

\* A call that captured a patch without located files is running or has
\* succeeded, with no edit groups and no errors, and while it runs its next
\* step can be taken whatever the locate tasks are doing
EmptyPatchGivesEmptyResult ==
    \A call \in DOMAIN branch_tasks :
        LET task == branch_tasks[call]
        IN  (task.patch # None /\ task.patch.buffers = <<>>) =>
              /\ task.status \in {"running", "ok"}
              /\ task.edit_groups = <<>>
              /\ task.errors = <<>>
              /\ task.status = "running" => ENABLED BranchStep(call)

\* C34: create_branch_for_patch called for a key after a revision was
\* submitted for it and before the first locate task of the key has put its
\* located patch into the store succeeds with a result that has no edit
\* groups and no errors: it neither fails with not-found nor waits for the
\* locate task in flight.
C34_EmptyResultBeforeFirstCommit ==
    [][CallBeforeFirstCommit]_vars /\ []EmptyPatchGivesEmptyResult

\* A call has succeeded with an empty result while the first locate task of
\* its key is still in flight
C34_Witness ==
    \E call \in DOMAIN branch_tasks :
        LET task == branch_tasks[call]
        IN  /\ task.status = "ok"
            /\ task.edit_groups = <<>>
            /\ task.range \in DOMAIN submitted
            /\ task.range \notin DOMAIN located
            /\ entries[task.range].locate_task # None
            /\ entries[task.range].locate_task[1] \in DOMAIN locate_tasks

\* The length of the live content: the located content changed by the hunks
LiveLen(hunks) == DriftLen + DeltaOfHunksBefore(hunks, Len(hunks) + 1)

\* C35: after the drift adjustment every edit range has
\* 0 <= start <= end <= length of the live content, for every list of hunks
\* and every list of located edits: the signed running delta drives no
\* offset below zero, where it would wrap on the conversion back to an
\* unsigned offset, and none past the end of the live content.
C35_AdjustedRangesInLiveContent ==
    fn_call.adjusted # None =>
        \A i \in DOMAIN Adjusted :
            /\ 0 <= Adjusted[i].range.start
            /\ Adjusted[i].range.start <= Adjusted[i].range.end
            /\ Adjusted[i].range.end <= LiveLen(fn_call.diff_edits)

\* C36: when the live content of a file equals the content it was located
\* in, so that the diff has no hunks, the drift adjustment leaves the range
\* of every located edit as it is.
C36_NoHunksLeaveRanges ==
    (fn_call.adjusted # None /\ fn_call.diff_edits = <<>>) =>
        /\ Len(Adjusted) = Len(fn_call.edits)
        /\ \A i \in DOMAIN fn_call.edits : Adjusted[i].range = fn_call.edits[i].range

\* Two located edits went through the loops with a diff without hunks
C36_Witness ==
    /\ fn_call.adjusted # None
    /\ fn_call.diff_edits = <<>>
    /\ Len(fn_call.edits) = 2
    /\ Adjusted = fn_call.edits

\* The offsets at which Q occurs verbatim in B
VerbatimOccurrences(B, Q) ==
    {s \in 0..(Len(B) - Len(Q)) : Slice(B, s, s + Len(Q)) = Q}

NextWithErrors ==
    \/ Next
    \/ \E id \in 1..MaxInserts : LocateError(id)

ErrorSpec == Init /\ [][NextWithErrors]_vars

\* The step ends the locate task id, and no located patch is put into the
\* store: the task ended with an error
EndsWithError(id) ==
    /\ id \in DOMAIN locate_tasks
    /\ id \notin DOMAIN locate_tasks'
    /\ spawned' = spawned
    /\ located' = located

\* The key's entry holds the handle of a task that is over: its last locate
\* task ended with an error
LastJobFailed(range) ==
    /\ range \in DOMAIN entries
    /\ entries[range].locate_task # None
    /\ entries[range].locate_task[1] \notin DOMAIN locate_tasks

\* The patch is what the store held for the key before the failed task: the
\* patch without located files of a key never located, or the located patch
\* of the revision located last
IsPreviousResult(range, patch) ==
    IF range \in DOMAIN located
    THEN patch.input.edits = located[range][Len(located[range])]
    ELSE patch.buffers = <<>>

\* A call made for a key whose last locate task failed captures the patch
\* the store holds, which is the previous result
CallAfterError ==
    (/\ Len(branch_tasks') = Len(branch_tasks) + 1
     /\ LastJobFailed(branch_tasks'[Len(branch_tasks')].range)) =>
        LET task == branch_tasks'[Len(branch_tasks')]
        IN  /\ task.status = "running"
            /\ task.patch = entries[task.range].patch
            /\ IsPreviousResult(task.range, task.patch)

\* C38: when a locate task ends with an error instead of a located patch,
\* the located patch the store holds for its key is left exactly as it was
\* when the task was started, and a later create_branch_for_patch for the
\* key still uses that patch.
C38_ErrorLeavesCachedPatch ==
    /\ [][\A id \in DOMAIN locate_tasks :
             EndsWithError(id) =>
                 /\ entries' = entries
                 /\ entries'[locate_tasks[id].range].patch
                      = locate_tasks[id].old_located_patch]_vars
    /\ [][CallAfterError]_vars
    /\ [](\A range \in DOMAIN entries :
             LastJobFailed(range) => IsPreviousResult(range, entries[range].patch))

\* A call has applied the located patch of the first revision of a key
\* after the locate task of the second revision ended with an error
C38_Witness ==
    \E call \in DOMAIN branch_tasks :
        LET task == branch_tasks[call]
        IN  /\ task.status = "ok"
            /\ task.edit_groups # <<>>
            /\ LastJobFailed(task.range)
            /\ task.patch = entries[task.range].patch
            /\ submitted[task.range] # task.patch.input.edits

\* Every located edit of the located files names, by its input_ix, an edit
\* of the revision whose path is the path of the file that holds it
IndexNamesEditOfSamePath(outputs, input_edits) ==
    \A b \in DOMAIN outputs :
        \A e \in DOMAIN outputs[b].edits :
            LET input_ix == outputs[b].edits[e].input_ix
            IN  /\ input_ix \in DOMAIN input_edits
                /\ input_edits[input_ix].path = outputs[b].path

\* C39: in every located patch, in the store and in the making, the
\* input_ix of each located edit is the index, in the revision the patch was
\* located from, of an edit whose path is the path of the located file that
\* holds it; so also for an edit reused from the previous located patch,
\* whose index is rewritten to its position in the new revision.
C39_InputIxNamesEditOfItsFile ==
    /\ \A range \in DOMAIN entries :
          IndexNamesEditOfSamePath(entries[range].patch.buffers,
                                   entries[range].patch.input.edits)
    /\ \A id \in DOMAIN locate_tasks :
          IndexNamesEditOfSamePath(locate_tasks[id].new_outputs,
                                   locate_tasks[id].patch.edits)

\* The store holds the located patch of the revision Update b.rs, Update
\* a.rs, located after the revision Update a.rs: the edit of a.rs was reused
\* and has the index 2
C39_Witness ==
    \E range \in DOMAIN entries :
        LET patch == entries[range].patch
        IN  /\ entries[range].locate_task = None
            /\ Len(located[range]) = 2
            /\ located[range][1] = <<E1>>
            /\ patch.input.edits = <<Eb, E1>>
            /\ BufferIx(patch.buffers, "a.rs") # 0
            /\ PatchBufferFor(patch, "a.rs").edits[1].input_ix = 2

=============================================================================
